---- MODULE Spec2Model ----
(***************************************************************************)
(* ScreenClip / AppShot Pro: the compositing pipeline (src/utils/canvas.ts)*)
(* the editor that drives it (src/components/ScreenshotEditor.tsx), the    *)
(* template picker (src/components/TemplateSelector.tsx) and the free-tier *)
(* bookkeeping (src/utils/freebie.ts).                                     *)
(*                                                                         *)
(* JavaScript numbers are modelled as exact rationals [n, d] in lowest     *)
(* terms with d > 0, so that "equal" means equal as real numbers; the      *)
(* rounding of IEEE doubles is not modelled.                               *)
(***************************************************************************)
EXTENDS Integers, Sequences, FiniteSets, TLC

(***************************************************************************)
(* Exact rational arithmetic.                                              *)
(***************************************************************************)
Abs(i) == IF i < 0 THEN 0 - i ELSE i

RECURSIVE GCD(_, _)
GCD(a, b) == IF b = 0 THEN a ELSE GCD(b, a % b)

Rat(n, d) ==
  LET g == GCD(Abs(n), Abs(d))
      s == IF d < 0 THEN 0 - 1 ELSE 1
  IN  IF n = 0 THEN [n |-> 0, d |-> 1]
      ELSE [n |-> s * (n \div g), d |-> s * (d \div g)]

R(i) == [n |-> i, d |-> 1]

RMul(a, b) ==
  LET g1 == GCD(Abs(a.n), b.d)
      g2 == GCD(Abs(b.n), a.d)
  IN  IF a.n = 0 \/ b.n = 0 THEN R(0)
      ELSE Rat((a.n \div g1) * (b.n \div g2), (a.d \div g2) * (b.d \div g1))

RDiv(a, b) == RMul(a, IF b.n < 0 THEN [n |-> 0 - b.d, d |-> 0 - b.n]
                                 ELSE [n |-> b.d, d |-> b.n])

RAdd(a, b) ==
  LET g == GCD(a.d, b.d)
  IN  Rat(a.n * (b.d \div g) + b.n * (a.d \div g), (a.d \div g) * b.d)

RNeg(a) == [n |-> 0 - a.n, d |-> a.d]

RSub(a, b) == RAdd(a, RNeg(b))

RLe(a, b) == RSub(a, b).n <= 0

RLt(a, b) == RSub(a, b).n < 0

RMin(a, b) == IF RLe(a, b) THEN a ELSE b

RMax(a, b) == IF RLe(a, b) THEN b ELSE a

RHalf(a) == RDiv(a, R(2))

\* the number a canvas keeps when a side is assigned: width and height are
\* unsigned long attributes, an assigned number loses its fraction (the sizes
\* here are never negative); sums of whole numbers are assigned as they are
ToUnsignedLong(a) == R(a.n \div a.d)

None == << >>

Some(v) == << v >>

Rect(x, y, w, h) == [x |-> x, y |-> y, w |-> w, h |-> h]

(***************************************************************************)
(* Watermark text: a string is a sequence of characters; " " is white      *)
(* space, every other character is visible.                                *)
(***************************************************************************)
IsSpace(c) == c = " "

RECURSIVE TrimStart(_)
TrimStart(s) ==
  IF s # << >> /\ IsSpace(Head(s)) THEN TrimStart(Tail(s)) ELSE s

RECURSIVE TrimEnd(_)
TrimEnd(s) ==
  IF s # << >> /\ IsSpace(s[Len(s)]) THEN TrimEnd(SubSeq(s, 1, Len(s) - 1)) ELSE s

Trim(s) == TrimEnd(TrimStart(s))

BrandingText == << "AppShot Free" >>

\* a plausible slip: the custom stamp suppresses the branding stamp
AddWatermarkExclusive(customText, isPaid) ==
  IF customText # << >> /\ Trim(customText) # << >>
    THEN << [kind |-> "custom", text |-> customText, at |-> "bottom-center"] >>
    ELSE IF ~isPaid
      THEN << [kind |-> "branding", text |-> BrandingText, at |-> "bottom-right"] >>
      ELSE << >>

\* the stamps addWatermark draws, in drawing order
AddWatermark(customText, isPaid) ==
  (IF ~isPaid
     THEN << [kind |-> "branding", text |-> BrandingText, at |-> "bottom-right"] >>
     ELSE << >>)
  \o
  (IF customText # << >> /\ Trim(customText) # << >>
     THEN << [kind |-> "custom", text |-> customText, at |-> "bottom-center"] >>
     ELSE << >>)

(***************************************************************************)
(* Image placement inside a screen region.                                 *)
(***************************************************************************)
padding == 100

\* a plausible slip: cover (Math.max) in place of fit (Math.min)
drawImageInPhoneRealCover(image, screenX, screenY, screenWidth, screenHeight, transform) ==
  LET baseScale    == RMax(RDiv(screenWidth, R(image.width)),
                           RDiv(screenHeight, R(image.height)))
      finalScale   == RMul(baseScale, transform.scale)
      scaledWidth  == RMul(R(image.width), finalScale)
      scaledHeight == RMul(R(image.height), finalScale)
      imageCenterX == RAdd(RAdd(screenX, RHalf(screenWidth)), R(transform.x))
      imageCenterY == RAdd(RAdd(screenY, RHalf(screenHeight)), R(transform.y))
  IN  Rect(RSub(imageCenterX, RHalf(scaledWidth)),
           RSub(imageCenterY, RHalf(scaledHeight)),
           scaledWidth, scaledHeight)

\* the rectangle drawImageInPhoneReal hands to ctx.drawImage
drawImageInPhoneReal(image, screenX, screenY, screenWidth, screenHeight, transform) ==
  LET baseScale    == RMin(RDiv(screenWidth, R(image.width)),
                           RDiv(screenHeight, R(image.height)))
      finalScale   == RMul(baseScale, transform.scale)
      scaledWidth  == RMul(R(image.width), finalScale)
      scaledHeight == RMul(R(image.height), finalScale)
      screenCenterX == RAdd(screenX, RHalf(screenWidth))
      screenCenterY == RAdd(screenY, RHalf(screenHeight))
      imageCenterX == RAdd(screenCenterX, R(transform.x))
      imageCenterY == RAdd(screenCenterY, R(transform.y))
  IN  Rect(RSub(imageCenterX, RHalf(scaledWidth)),
           RSub(imageCenterY, RHalf(scaledHeight)),
           scaledWidth, scaledHeight)

\* the rectangle drawImageInDeviceScreen hands to ctx.drawImage
drawImageInDeviceScreen(image, screenX, screenY, screenWidth, screenHeight, transform) ==
  LET baseScale    == RMin(RDiv(screenWidth, R(image.width)),
                           RDiv(screenHeight, R(image.height)))
      finalScale   == RMul(baseScale, transform.scale)
      scaledWidth  == RMul(R(image.width), finalScale)
      scaledHeight == RMul(R(image.height), finalScale)
      screenCenterX == RAdd(screenX, RHalf(screenWidth))
      screenCenterY == RAdd(screenY, RHalf(screenHeight))
      imageCenterX == RAdd(screenCenterX, R(transform.x))
      imageCenterY == RAdd(screenCenterY, R(transform.y))
  IN  Rect(RSub(imageCenterX, RHalf(scaledWidth)),
           RSub(imageCenterY, RHalf(scaledHeight)),
           scaledWidth, scaledHeight)

\* the fallback phone: the screen is the phoneWidth x phoneHeight rectangle
\* centred on (centerX, centerY)
drawImageInPhone(image, centerX, centerY, phoneWidth, phoneHeight, transform) ==
  LET baseScale    == RMin(RDiv(phoneWidth, R(image.width)),
                           RDiv(phoneHeight, R(image.height)))
      finalScale   == RMul(baseScale, transform.scale)
      scaledWidth  == RMul(R(image.width), finalScale)
      scaledHeight == RMul(R(image.height), finalScale)
      imageCenterX == RAdd(centerX, R(transform.x))
      imageCenterY == RAdd(centerY, R(transform.y))
  IN  Rect(RSub(imageCenterX, RHalf(scaledWidth)),
           RSub(imageCenterY, RHalf(scaledHeight)),
           scaledWidth, scaledHeight)

(***************************************************************************)
(* applyTemplate.  image = [width, height]; template = [id, type, device,  *)
(* orientation, background, screenBgColor]; deviceFrame is what            *)
(* loadDeviceFrame returned: None, or Some(descriptor) with descriptor =   *)
(* [fw, fh, sx, sy, sw, sh] (frameSize and screen of the sidecar JSON).    *)
(* The result records what was painted: canvas size, the screen region the *)
(* image is clipped to, the rectangle the image is drawn into, the paint   *)
(* steps in order, the watermark stamps, the _realScreenDimensions stored  *)
(* on the template, and the place where the screen opening of the frame    *)
(* bitmap lands on the canvas.                                             *)
(***************************************************************************)
\* drawBackground: the fill is chosen by template.type alone
drawBackground(template) ==
  IF template.type = "gradient" THEN << "gradient", template.id >>
  ELSE IF template.type = "solid" THEN << "solid", template.id >>
  ELSE << "gradient", "device-default" >>

Layer(op, fill, clip, rect, text) ==
  [op |-> op, fill |-> fill, clip |-> clip, rect |-> rect, text |-> text]

RECURSIVE StampLayers(_)
StampLayers(stamps) ==
  IF stamps = << >> THEN << >>
  ELSE << Layer(Head(stamps).kind, << Head(stamps).at >>, None, None, Head(stamps).text) >>
       \o StampLayers(Tail(stamps))

\* ops: the paint steps between the canvas resize and the watermark, in order;
\* clip: the clipping path in force when the image is drawn, None when the
\* image is drawn with no clip
Painted(path, template, cw, ch, screen, clip, draw, ops, dims, cutout, customWatermark, isPaid) ==
  [path    |-> path,
   canvas  |-> [width |-> cw, height |-> ch],
   screen  |-> screen,
   draw    |-> draw,
   ops     |-> ops \o << "watermark" >>,
   stamps  |-> AddWatermark(customWatermark, isPaid),
   layers  |-> [i \in 1..Len(ops) |->
                  IF ops[i] = "backdrop"
                    THEN Layer("backdrop", drawBackground(template), None, None, << >>)
                  ELSE IF ops[i] = "image"
                    THEN Layer("image", << >>, clip, Some(draw), << >>)
                  ELSE IF ops[i] = "reflection"
                    THEN Layer("reflection", << >>, Some(screen), Some(screen), << >>)
                  ELSE Layer("frame", << path >>, None, cutout, << >>)]
               \o StampLayers(AddWatermark(customWatermark, isPaid)),
   realScreenDimensions |-> dims,
   cutout  |-> cutout,
   raised  |-> FALSE,
   resized |-> TRUE]

\* the call on a descriptor without frameSize throws where it reads
\* frameTemplate.frameSize.width, before the canvas is resized; on a descriptor
\* without screen it throws where it reads frameTemplate.screen.x, after the
\* resize and drawBackground; out is what the call paints on a whole descriptor
Raise(out, f) ==
  IF f.lacks = "" THEN out
  ELSE [out EXCEPT !.raised  = TRUE,
                   !.resized = (f.lacks = "screen"),
                   !.ops     = IF f.lacks = "screen" THEN << "backdrop" >> ELSE << >>,
                   !.layers  = IF f.lacks = "screen" THEN << out.layers[1] >> ELSE << >>,
                   !.stamps  = << >>,
                   !.realScreenDimensions = None,
                   !.cutout  = None]

PhoneDisplayScalePortrait == Rat(22, 100)

\* the landscape phone at the scale of the portrait one
PhoneDisplayScaleLandscapeAsPortrait == Rat(22, 100)
PhoneDisplayScaleLandscape == Rat(28, 100)

\* the tablet at the scale of the upright phone
IpadDisplayScaleAsPhone == Rat(22, 100)
IpadDisplayScale == Rat(35, 100)

\* ctx.translate(centerX, centerY); ctx.rotate(Math.PI / 2): the local point
\* (u, v) lands on (centerX - v, centerY + u), so the local rectangle
\* (u, v, w, h) lands on the rectangle below
RotateCW(centerX, centerY, r) ==
  Rect(RSub(RSub(centerX, r.y), r.h), RAdd(centerY, r.x), r.h, r.w)

\* the screen rectangle applyTemplate computes for the landscape phone
RotatedScreen(f, canvasW, canvasH, canvasWidth, canvasHeight) ==
  LET frameLeft == RHalf(RSub(canvasW, canvasWidth))
      frameTop  == RHalf(RSub(canvasH, canvasHeight))
  IN  Rect(RAdd(frameLeft, RMul(Rat(f.sy, f.fh), canvasWidth)),
           RAdd(frameTop, RMul(Rat(f.fw - f.sx - f.sw, f.fw), canvasHeight)),
           RMul(Rat(f.sh, f.fh), canvasWidth),
           RMul(Rat(f.sw, f.fw), canvasHeight))

ApplyPhoneFrame(image, template, customWatermark, imageTransform, isPaid, f) ==
  LET portrait     == template.orientation = "portrait"
      displayScale == IF portrait THEN PhoneDisplayScalePortrait
                                  ELSE PhoneDisplayScaleLandscape
      canvasWidth  == IF portrait THEN RMul(R(f.fw), displayScale)
                                  ELSE RMul(R(f.fh), displayScale)
      canvasHeight == IF portrait THEN RMul(R(f.fh), displayScale)
                                  ELSE RMul(R(f.fw), displayScale)
      cw == ToUnsignedLong(RAdd(canvasWidth, R(padding * 2)))
      ch == ToUnsignedLong(RAdd(canvasHeight, R(padding * 2)))
      screen ==
        IF portrait
          THEN Rect(RAdd(R(padding), RMul(R(f.sx), displayScale)),
                    RAdd(R(padding), RMul(R(f.sy), displayScale)),
                    RMul(R(f.sw), displayScale),
                    RMul(R(f.sh), displayScale))
          ELSE RotatedScreen(f, cw, ch, canvasWidth, canvasHeight)
      \* the frame bitmap: drawn at (padding, padding) in portrait; drawn at
      \* (-origW/2, -origH/2) in the rotated context in landscape
      origW == RMul(R(f.fw), displayScale)
      origH == RMul(R(f.fh), displayScale)
      hole  == Rect(RMul(R(f.sx), displayScale), RMul(R(f.sy), displayScale),
                    RMul(R(f.sw), displayScale), RMul(R(f.sh), displayScale))
      cutout ==
        IF portrait
          THEN Rect(RAdd(R(padding), hole.x), RAdd(R(padding), hole.y), hole.w, hole.h)
          ELSE RotateCW(RHalf(cw), RHalf(ch),
                        Rect(RSub(hole.x, RHalf(origW)), RSub(hole.y, RHalf(origH)),
                             hole.w, hole.h))
  IN  Painted("asset", template, cw, ch, screen, Some(screen),
              drawImageInPhoneReal(image, screen.x, screen.y, screen.w, screen.h,
                                   imageTransform),
              << "backdrop", "image", "frame" >>,
              Some([width |-> screen.w, height |-> screen.h]),
              Some(cutout), customWatermark, isPaid)

\* the canvas-drawn phone always upright
ApplyPhoneFallbackUpright(image, template, customWatermark, imageTransform, isPaid) ==
  LET phoneWidth  == 380
      phoneHeight == 780
      cw == R(phoneWidth + padding * 2 + 100)
      ch == R(phoneHeight + padding * 2 + 100)
      screen == Rect(RSub(RHalf(cw), RHalf(R(phoneWidth))),
                     RSub(RHalf(ch), RHalf(R(phoneHeight))),
                     R(phoneWidth), R(phoneHeight))
  IN  Painted("fallback", template, cw, ch, screen, Some(screen),
              drawImageInPhone(image, RHalf(cw), RHalf(ch), R(phoneWidth),
                               R(phoneHeight), imageTransform),
              << "backdrop", "frame", "image", "reflection" >>,
              Some([width |-> R(phoneWidth), height |-> R(phoneHeight)]),
              None, customWatermark, isPaid)
ApplyPhoneFallback(image, template, customWatermark, imageTransform, isPaid) ==
  LET portrait    == template.orientation = "portrait"
      phoneWidth  == IF portrait THEN 380 ELSE 780
      phoneHeight == IF portrait THEN 780 ELSE 380
      cw == R(phoneWidth + padding * 2 + 100)
      ch == R(phoneHeight + padding * 2 + 100)
      screen == Rect(RSub(RHalf(cw), RHalf(R(phoneWidth))),
                     RSub(RHalf(ch), RHalf(R(phoneHeight))),
                     R(phoneWidth), R(phoneHeight))
  IN  Painted("fallback", template, cw, ch, screen, Some(screen),
              drawImageInPhone(image, RHalf(cw), RHalf(ch), R(phoneWidth),
                               R(phoneHeight), imageTransform),
              << "backdrop", "frame", "image", "reflection" >>,
              Some([width |-> R(phoneWidth), height |-> R(phoneHeight)]),
              None, customWatermark, isPaid)

ApplyIpadFrame(image, template, customWatermark, imageTransform, isPaid, f) ==
  LET displayScale == IpadDisplayScale
      canvasWidth  == RMul(R(f.fw), displayScale)
      canvasHeight == RMul(R(f.fh), displayScale)
      cw == ToUnsignedLong(RAdd(canvasWidth, R(padding * 2)))
      ch == ToUnsignedLong(RAdd(canvasHeight, R(padding * 2)))
      screen == Rect(RAdd(R(padding), RMul(R(f.sx), displayScale)),
                     RAdd(R(padding), RMul(R(f.sy), displayScale)),
                     RMul(R(f.sw), displayScale),
                     RMul(R(f.sh), displayScale))
  IN  Painted("asset", template, cw, ch, screen, Some(screen),
              drawImageInDeviceScreen(image, screen.x, screen.y, screen.w, screen.h,
                                      imageTransform),
              << "backdrop", "image", "frame" >>,
              Some([width |-> screen.w, height |-> screen.h]),
              Some(screen), customWatermark, isPaid)

ApplyIpadFallback(image, template, customWatermark, imageTransform, isPaid) ==
  LET ipadWidth  == 1024
      ipadHeight == 768
      cw == R(ipadWidth + padding * 2)
      ch == R(ipadHeight + padding * 2)
      x  == R(padding)
      y  == R(padding)
      baseScale    == RMin(Rat(ipadWidth, image.width), Rat(ipadHeight, image.height))
      scaledWidth  == RMul(RMul(R(image.width), baseScale), imageTransform.scale)
      scaledHeight == RMul(RMul(R(image.height), baseScale), imageTransform.scale)
      imageX == RAdd(RAdd(x, RHalf(RSub(R(ipadWidth), scaledWidth))), R(imageTransform.x))
      imageY == RAdd(RAdd(y, RHalf(RSub(R(ipadHeight), scaledHeight))), R(imageTransform.y))
  IN  Painted("fallback", template, cw, ch, Rect(x, y, R(ipadWidth), R(ipadHeight)),
              None,
              Rect(imageX, imageY, scaledWidth, scaledHeight),
              << "backdrop", "frame", "image" >>,
              Some([width |-> R(ipadWidth), height |-> R(ipadHeight)]),
              None, customWatermark, isPaid)

ApplyMacbook(image, template, customWatermark, imageTransform, isPaid) ==
  LET macbookScreenW == 1280
      macbookScreenH == 800
      mbBezelTop    == 28
      mbBezelSide   == 14
      mbBezelBottom == 14
      mbLidW == macbookScreenW + mbBezelSide * 2
      mbLidH == macbookScreenH + mbBezelTop + mbBezelBottom
      cw == R(mbLidW + padding * 2 + 80)
      ch == R(mbLidH + padding * 2 + 80)
      macCenterX == RHalf(cw)
      macCenterY == RHalf(ch)
      macLidX == RSub(macCenterX, RHalf(R(mbLidW)))
      macLidY == RSub(RSub(macCenterY, RHalf(R(mbLidH))), R(20))
      screenX == RAdd(macLidX, R(mbBezelSide))
      screenY == RAdd(macLidY, R(mbBezelTop))
      baseScale    == RMin(Rat(macbookScreenW, image.width), Rat(macbookScreenH, image.height))
      scaledWidth  == RMul(RMul(R(image.width), baseScale), imageTransform.scale)
      scaledHeight == RMul(RMul(R(image.height), baseScale), imageTransform.scale)
      imageX == RAdd(RAdd(screenX, RHalf(RSub(R(macbookScreenW), scaledWidth))),
                     R(imageTransform.x))
      imageY == RAdd(RAdd(screenY, RHalf(RSub(R(macbookScreenH), scaledHeight))),
                     R(imageTransform.y))
  IN  Painted("procedural", template, cw, ch,
              Rect(screenX, screenY, R(macbookScreenW), R(macbookScreenH)),
              Some(Rect(screenX, screenY, R(macbookScreenW), R(macbookScreenH))),
              Rect(imageX, imageY, scaledWidth, scaledHeight),
              << "backdrop", "frame", "image" >>,
              Some([width |-> R(macbookScreenW), height |-> R(macbookScreenH)]),
              None, customWatermark, isPaid)

\* the browser window with the image clipped from the window top, under the
\* title bar
ApplyBrowserUnderTitleBar(image, template, customWatermark, imageTransform, isPaid) ==
  LET browserWidth    == 1200
      browserHeight   == 675
      browserTitleBar == 40
      cw == R(browserWidth + padding * 2)
      ch == R(browserHeight + browserTitleBar + padding * 2)
      windowX == R(padding)
      windowY == R(padding)
      baseScale    == RMin(Rat(browserWidth, image.width), Rat(browserHeight, image.height))
      scaledWidth  == RMul(RMul(R(image.width), baseScale), imageTransform.scale)
      scaledHeight == RMul(RMul(R(image.height), baseScale), imageTransform.scale)
      imageX == RAdd(RAdd(windowX, RHalf(RSub(R(browserWidth), scaledWidth))),
                     R(imageTransform.x))
      imageY == RAdd(RAdd(windowY, RHalf(RSub(R(browserHeight), scaledHeight))),
                     R(imageTransform.y))
  IN  Painted("procedural", template, cw, ch,
              Rect(windowX, windowY, R(browserWidth), R(browserHeight)),
              Some(Rect(windowX, windowY, R(browserWidth), R(browserHeight))),
              Rect(imageX, imageY, scaledWidth, scaledHeight),
              << "backdrop", "frame", "image" >>,
              Some([width |-> R(browserWidth), height |-> R(browserHeight)]),
              None, customWatermark, isPaid)
ApplyBrowser(image, template, customWatermark, imageTransform, isPaid) ==
  LET browserWidth    == 1200
      browserHeight   == 675
      browserTitleBar == 40
      cw == R(browserWidth + padding * 2)
      ch == R(browserHeight + browserTitleBar + padding * 2)
      windowX == R(padding)
      windowY == R(padding)
      baseScale    == RMin(Rat(browserWidth, image.width), Rat(browserHeight, image.height))
      scaledWidth  == RMul(RMul(R(image.width), baseScale), imageTransform.scale)
      scaledHeight == RMul(RMul(R(image.height), baseScale), imageTransform.scale)
      imageX == RAdd(RAdd(windowX, RHalf(RSub(R(browserWidth), scaledWidth))),
                     R(imageTransform.x))
      imageY == RAdd(RAdd(RAdd(windowY, R(40)),
                          RHalf(RSub(R(browserHeight), scaledHeight))),
                     R(imageTransform.y))
  IN  Painted("procedural", template, cw, ch,
              Rect(windowX, RAdd(windowY, R(40)), R(browserWidth), R(browserHeight)),
              Some(Rect(windowX, RAdd(windowY, R(40)), R(browserWidth), R(browserHeight))),
              Rect(imageX, imageY, scaledWidth, scaledHeight),
              << "backdrop", "frame", "image" >>,
              Some([width |-> R(browserWidth), height |-> R(browserHeight)]),
              None, customWatermark, isPaid)

\* the flat template with the image always brought to the maximum width
ApplyFlatUpscaling(image, template, customWatermark, imageTransform, isPaid) ==
  LET maxWidth == 1600
      scale == Rat(maxWidth, image.width)
      scaledWidth  == RMul(R(image.width), scale)
      scaledHeight == RMul(R(image.height), scale)
      card == Rect(R(padding), R(padding), scaledWidth, scaledHeight)
  IN  Painted("flat", template, ToUnsignedLong(RAdd(scaledWidth, R(padding * 2))),
              ToUnsignedLong(RAdd(scaledHeight, R(padding * 2))), card, Some(card), card,
              << "backdrop", "image" >>,
              None, None, customWatermark, isPaid)
ApplyFlat(image, template, customWatermark, imageTransform, isPaid) ==
  LET maxWidth == 1600
      scale == RMin(Rat(maxWidth, image.width), R(1))
      scaledWidth  == RMul(R(image.width), scale)
      scaledHeight == RMul(R(image.height), scale)
      card == Rect(R(padding), R(padding), scaledWidth, scaledHeight)
  IN  Painted("flat", template, ToUnsignedLong(RAdd(scaledWidth, R(padding * 2))),
              ToUnsignedLong(RAdd(scaledHeight, R(padding * 2))), card, Some(card), card,
              << "backdrop", "image" >>,
              None, None, customWatermark, isPaid)

\* which asset applyTemplate asks loadDeviceFrame for ("" when none)
FramePath(template) ==
  IF template.type = "device" /\ template.device = "phone"
    THEN "/device-frames/iphone-16-pro-max-black.png"
  ELSE IF template.type = "device" /\ template.device = "ipad"
    THEN "/device-frames/ipad-pro-13-landscape-silver.png"
  ELSE ""

applyTemplate(image, template, customWatermark, imageTransform, isPaid, deviceFrame) ==
  IF template.type = "device"
    THEN IF template.device = "phone"
           THEN IF deviceFrame # None
                  THEN Raise(ApplyPhoneFrame(image, template, customWatermark,
                                             imageTransform, isPaid, deviceFrame[1]),
                             deviceFrame[1])
                  ELSE ApplyPhoneFallback(image, template, customWatermark,
                                          imageTransform, isPaid)
         ELSE IF template.device = "ipad"
           THEN IF deviceFrame # None
                  THEN Raise(ApplyIpadFrame(image, template, customWatermark,
                                            imageTransform, isPaid, deviceFrame[1]),
                             deviceFrame[1])
                  ELSE ApplyIpadFallback(image, template, customWatermark,
                                         imageTransform, isPaid)
         ELSE IF template.device = "macbook"
           THEN ApplyMacbook(image, template, customWatermark, imageTransform, isPaid)
           ELSE ApplyBrowser(image, template, customWatermark, imageTransform, isPaid)
    ELSE ApplyFlat(image, template, customWatermark, imageTransform, isPaid)

(***************************************************************************)
(* State.                                                                  *)
(***************************************************************************)
VARIABLES
  image,              \* useState: None or Some([width, height])
  selectedTemplate,   \* useState: None or Some(template)
  activeBackground,   \* useState: None or Some(template)
  customWatermark,    \* useState: the watermark text
  imageTransform,     \* useState: [scale, x, y]
  isTransforming,     \* useState: a drag is active
  transformStartRef,  \* useRef: None or Some([x, y]), the drag anchor
  drag,               \* history: None or Some([p0, t0, p]): where the pointer went
                      \* down, the transform then, and where it last moved to
  isPaid,             \* useState: the paid flag the editor renders with
  screenBgColor,      \* useState
  showPaywall,        \* useState
  realScreenDimsRef,  \* useRef: None or Some([width, height])
  phoneOrientation,   \* TemplateSelector's useState
  fillTimer,          \* the pending auto-fill timeout: None or Some(closure)
  canvas,             \* the canvas element: [width, height, layers]
  pending,            \* applyTemplate calls waiting in loadDeviceFrame
  deviceFrameCache,   \* the module-level Map: asset path -> cached frame
  loads,              \* history: asset path -> how often it was fetched and stored
  assets,             \* the descriptors served under /device-frames
  lastRender,         \* history: None or Some(the render that painted last)
  refRender,          \* history: None or Some(an earlier render, kept to compare)
  storage,            \* localStorage
  clock,              \* [month, hour]: what Date reports
  verifying,          \* handleDownload is waiting for /api/verify
  exported            \* history: exports since the month last changed, and the last download

editorVars == << image, selectedTemplate, activeBackground, customWatermark,
                 imageTransform, isTransforming, transformStartRef, drag,
                 screenBgColor, phoneOrientation, fillTimer >>

renderVars == << canvas, pending, deviceFrameCache, loads, realScreenDimsRef, lastRender >>

quotaVars == << isPaid, showPaywall, storage, clock, verifying, exported >>

vars == << editorVars, renderVars, quotaVars, assets, refRender >>

(***************************************************************************)
(* Bounds and input sets.                                                  *)
(***************************************************************************)
MaxPending == 2

PhoneAsset == "/device-frames/iphone-16-pro-max-black.png"

IpadAsset == "/device-frames/ipad-pro-13-landscape-silver.png"

\* a sidecar descriptor; lacks names the member the JSON does not have
\* ("frameSize" or "screen"), "" when it has both
Frame(fw, fh, sx, sy, sw, sh) ==
  [fw |-> fw, fh |-> fh, sx |-> sx, sy |-> sy, sw |-> sw, sh |-> sh, lacks |-> ""]

Lacking(f, member) == [f EXCEPT !.lacks = member]

\* sidecar descriptors a phone asset may carry: a centred screen, and screens
\* nearer one edge of the frame than the other
PhoneFrames == { Frame(1500, 3000, 100, 100, 1300, 2800),
                 Frame(1500, 3000, 100, 150, 1300, 2800),
                 Frame(1500, 3000, 50, 100, 1300, 2800),
                 Frame(1290, 2796, 45, 48, 1200, 2700) }

IpadFrames == { Frame(3000, 2200, 100, 100, 2800, 2000) }

ImageSizes == { [width |-> 1000, height |-> 2000],
                [width |-> 1600, height |-> 1000],
                [width |-> 2000, height |-> 500],
                [width |-> 500, height |-> 500],
                [width |-> 1700, height |-> 1000] }

Gradient(id) == [id |-> id, type |-> "gradient", device |-> "", orientation |-> ""]

Device(id, device, orientation) ==
  [id |-> id, type |-> "device", device |-> device, orientation |-> orientation]

\* the templates array of TemplateSelector (two of its eight gradients)
templates == << Gradient("gradient-purple-pink"),
                Gradient("gradient-navy-mint"),
                Device("device-browser", "browser", ""),
                Device("device-phone", "phone", "portrait"),
                Device("device-ipad", "ipad", ""),
                Device("device-macbook", "macbook", "") >>

Identity == [scale |-> R(1), x |-> 0, y |-> 0]

EmptyCanvas == [width |-> R(300), height |-> R(150), layers |-> << >>]

(***************************************************************************)
(* Rendering: loadDeviceFrame, the canvas, and the calls in flight.        *)
(***************************************************************************)
\* a plausible slip: the cache read ignores the key
loadDeviceFrameAnyKey(cache, framePath, fetched) ==
  IF DOMAIN cache # {} THEN Some(cache[CHOOSE k \in DOMAIN cache : TRUE]) ELSE fetched

\* loadDeviceFrame: the cached entry when there is one, else what the two
\* fetches gave (None when either failed)
loadDeviceFrame(cache, framePath, fetched) ==
  IF framePath \in DOMAIN cache THEN Some(cache[framePath]) ELSE fetched

\* deviceFrameCache.set(framePath, frame)
CacheSet(cache, framePath, frame) ==
  [k \in DOMAIN cache \cup {framePath} |-> IF k = framePath THEN frame ELSE cache[k]]

EmptyCache == [k \in {} |-> Frame(0, 0, 0, 0, 0, 0)]

\* canvas.width = ...; canvas.height = ...: assigning the size clears the canvas
SetCanvasSize(c, w, h) == [width |-> w, height |-> h, layers |-> << >>]

Paint(c, out) ==
  [SetCanvasSize(c, out.canvas.width, out.canvas.height)
     EXCEPT !.layers = @ \o out.layers]

\* the template the render effect hands to applyTemplate
RenderTemplate(sel, bg, sbc) ==
  [id          |-> sel.id,
   type        |-> sel.type,
   device      |-> sel.device,
   orientation |-> sel.orientation,
   background  |-> IF sel.type = "device" /\ bg # None THEN bg[1].id ELSE "",
   screenBgColor |-> IF sel.type = "device" THEN sbc ELSE ""]

\* one call of applyTemplate: its arguments, whether its promise has the
\* .then that captures the screen dimensions, whether the canvas it paints on
\* is still the mounted one, the handler that made the call, and where the
\* call is: None while it waits in loadDeviceFrame, else what loadDeviceFrame
\* returned and the number of statements run since (the resize is the first,
\* then one per paint step)
Task(img, rt, wm, tr, paid, capture, cause) ==
  [image |-> img, template |-> rt, customWatermark |-> wm, imageTransform |-> tr,
   isPaid |-> paid, capture |-> capture, mounted |-> TRUE, cause |-> cause,
   at |-> None]

RS == [canvas |-> canvas, pending |-> pending, cache |-> deviceFrameCache,
       loads |-> loads, dims |-> realScreenDimsRef, last |-> lastRender]

\* what a call that painted out leaves behind; a call that threw rejects its
\* promise: the .catch logs, the .then does not run
Finish(rs, task, loaded, out) ==
  [rs EXCEPT
     !.canvas = IF task.mounted /\ out.resized THEN Paint(rs.canvas, out) ELSE @,
     !.dims   = IF task.capture /\ ~out.raised /\ out.realScreenDimensions # None
                  THEN out.realScreenDimensions ELSE @,
     !.last   = IF task.mounted /\ ~out.raised
                  THEN Some([in |-> task, loaded |-> loaded, out |-> out])
                  ELSE @]

\* applyTemplate from the point where loadDeviceFrame has returned
Complete(rs, task, deviceFrame) ==
  Finish(rs, task, deviceFrame # None,
         applyTemplate(task.image, task.template, task.customWatermark,
                       task.imageTransform, task.isPaid, deviceFrame))

\* a call that cancels the calls still waiting when it starts to wait itself
StartSuperseding(rs, task) ==
  LET framePath == FramePath(task.template)
  IN  IF framePath # "" /\ framePath \notin DOMAIN rs.cache
        THEN [rs EXCEPT !.pending = << task >>]
        ELSE Complete(rs, task, IF framePath = "" THEN None
                                ELSE loadDeviceFrame(rs.cache, framePath, None))

\* applyTemplate up to its await: a call that finds no cache entry waits for
\* the fetches, any other call paints before the next event is handled
Start(rs, task) ==
  LET framePath == FramePath(task.template)
  IN  IF framePath # "" /\ framePath \notin DOMAIN rs.cache
        THEN [rs EXCEPT !.pending = Append(@, task)]
        ELSE Complete(rs, task, IF framePath = "" THEN None
                                ELSE loadDeviceFrame(rs.cache, framePath, None))

\* the calls of tasks, one after the other
RECURSIVE StartAll(_, _)
StartAll(rs, tasks) ==
  IF tasks = << >> THEN rs ELSE StartAll(Start(rs, Head(tasks)), Tail(tasks))

SetRender(rs) ==
  /\ Len(rs.pending) <= MaxPending
  /\ canvas' = rs.canvas
  /\ pending' = rs.pending
  /\ deviceFrameCache' = rs.cache
  /\ loads' = rs.loads
  /\ realScreenDimsRef' = rs.dims
  /\ lastRender' = rs.last

RemoveAt(q, i) == SubSeq(q, 1, i - 1) \o SubSeq(q, i + 1, Len(q))

\* the fetches of a waiting call succeed: the entry is cached, the call paints
FetchOk(i) ==
  /\ i \in 1..Len(pending)
  /\ LET task == pending[i]
         framePath == FramePath(task.template)
         rs == [RS EXCEPT !.pending = RemoveAt(@, i),
                          !.cache = CacheSet(@, framePath, assets[framePath]),
                          !.loads[framePath] = @ + 1]
     IN  SetRender(Complete(rs, task, Some(assets[framePath])))
  /\ UNCHANGED << editorVars, quotaVars, assets, refRender >>

\* a fetch of a waiting call fails: loadDeviceFrame returns null, the call
\* paints the fallback frame
FetchFail(i) ==
  /\ i \in 1..Len(pending)
  /\ LET task == pending[i]
         rs == [RS EXCEPT !.pending = RemoveAt(@, i)]
     IN  SetRender(Complete(rs, task, None))
  /\ UNCHANGED << editorVars, quotaVars, assets, refRender >>

(***************************************************************************)
(* The same continuation of applyTemplate, statement by statement.  A call *)
(* that has returned from loadDeviceFrame runs until its next await or its *)
(* end before anything else runs: another call's continuation, a handler,  *)
(* an effect.                                                              *)
(***************************************************************************)
\* a plausible slip: the call awaits once more after drawBackground
YieldAfterBackdrop == { 2 }

\* the statement counts at which applyTemplate awaits after loadDeviceFrame
\* has returned: there is no await from the resize to addWatermark
YieldPoints == { }

\* call t is between two awaits
Running(t) == t.at # None /\ t.at[1].step \notin YieldPoints

Busy == \E i \in 1..Len(pending) : Running(pending[i])

\* what call t paints, given what its loadDeviceFrame returned
Out(t) ==
  applyTemplate(t.image, t.template, t.customWatermark, t.imageTransform, t.isPaid,
                t.at[1].frame)

\* the fetches of waiting call i end (ok: both succeeded): loadDeviceFrame
\* returns and the call goes on to the resize of the canvas
Resume(i, ok) ==
  /\ ~Busy
  /\ i \in 1..Len(pending)
  /\ pending[i].at = None
  /\ LET framePath == FramePath(pending[i].template)
         frame     == IF ok THEN Some(assets[framePath]) ELSE None
         task      == [pending[i] EXCEPT !.at = Some([frame |-> frame, step |-> 1])]
         out       == Out(task)
     IN  /\ deviceFrameCache' = IF ok THEN CacheSet(deviceFrameCache, framePath,
                                                    assets[framePath])
                                ELSE deviceFrameCache
         /\ loads' = IF ok THEN [loads EXCEPT ![framePath] = @ + 1] ELSE loads
         /\ canvas' = IF task.mounted /\ out.resized
                        THEN SetCanvasSize(canvas, out.canvas.width, out.canvas.height)
                        ELSE canvas
         /\ pending' = IF out.resized THEN [pending EXCEPT ![i] = task]
                        ELSE RemoveAt(pending, i)
  /\ UNCHANGED << realScreenDimsRef, lastRender, editorVars, quotaVars, assets, refRender >>

\* call i, past its resize, runs its next paint step; after the last one its
\* promise settles
PaintStep(i) ==
  /\ i \in 1..Len(pending)
  /\ pending[i].at # None
  /\ \A j \in 1..Len(pending) : j # i => ~Running(pending[j])
  /\ LET task == pending[i]
         k    == task.at[1].step
         out  == Out(task)
     IN  /\ canvas' = IF task.mounted
                        THEN [canvas EXCEPT !.layers = Append(@, out.layers[k])]
                        ELSE canvas
         /\ IF k < Len(out.layers)
              THEN /\ pending' = [pending EXCEPT ![i].at = Some([@[1] EXCEPT !.step = k + 1])]
                   /\ UNCHANGED << realScreenDimsRef, lastRender >>
              ELSE /\ pending' = RemoveAt(pending, i)
                   /\ realScreenDimsRef' =
                        IF task.capture /\ ~out.raised /\ out.realScreenDimensions # None
                          THEN out.realScreenDimensions ELSE realScreenDimsRef
                   /\ lastRender' =
                        IF task.mounted /\ ~out.raised
                          THEN Some([in |-> [task EXCEPT !.at = None],
                                     loaded |-> task.at[1].frame # None, out |-> out])
                          ELSE lastRender
  /\ UNCHANGED << deviceFrameCache, loads, editorVars, quotaVars, assets, refRender >>

(***************************************************************************)
(* src/utils/freebie.ts over localStorage.  storage = [paid, uses,         *)
(* resetDate, customerId, subscriptionId, lastVerified]; resetDate and     *)
(* lastVerified are None while the key is absent; customerId and           *)
(* subscriptionId record whether the key is present.                       *)
(***************************************************************************)
FREE_LIMIT == 3

\* 60 * 60 * 1000 ms, in clock ticks of half an hour
ONE_HOUR == 2

getCurrentMonth == clock.month

isPaidUser(st) == st.paid

\* getUsageCount writes as well as reads: the storage afterwards
getUsageCountStore(st) ==
  IF st.resetDate # Some(getCurrentMonth)
    THEN [st EXCEPT !.resetDate = Some(getCurrentMonth), !.uses = 0]
    ELSE st

\* ... and the count it returns
getUsageCount(st) == getUsageCountStore(st).uses

\* a plausible slip: > in place of >=
hasHitFreeLimitOffByOne(st) ==
  IF isPaidUser(st) THEN FALSE ELSE getUsageCount(st) > FREE_LIMIT

hasHitFreeLimit(st) ==
  IF isPaidUser(st) THEN FALSE ELSE getUsageCount(st) >= FREE_LIMIT

hasHitFreeLimitStore(st) ==
  IF isPaidUser(st) THEN st ELSE getUsageCountStore(st)

\* a plausible slip: the count is stored without the increment
incrementUsageNoop(st) == getUsageCountStore(st)

incrementUsage(st) ==
  [getUsageCountStore(st) EXCEPT !.uses = getUsageCount(st) + 1]

markAsPaid(st, customerId, subscriptionId) ==
  [st EXCEPT !.paid = TRUE,
             !.customerId = IF customerId THEN TRUE ELSE @,
             !.subscriptionId = IF subscriptionId THEN TRUE ELSE @]

getSubscriptionId(st) == st.subscriptionId

getCustomerId(st) == st.customerId

\* a plausible slip: the verification stamp survives the revocation
revokePaidKeepsStamp(st) ==
  [st EXCEPT !.paid = FALSE, !.customerId = FALSE, !.subscriptionId = FALSE]

revokePaid(st) ==
  [st EXCEPT !.paid = FALSE, !.customerId = FALSE, !.subscriptionId = FALSE,
             !.lastVerified = None]

isVerificationCached(st) ==
  IF st.lastVerified = None THEN FALSE
  ELSE st.lastVerified[1] > clock.now - ONE_HOUR

updateVerificationCache(st) == [st EXCEPT !.lastVerified = Some(clock.now)]

\* getRemainingExports writes through getUsageCount: the storage afterwards
getRemainingExportsStore(st) ==
  IF isPaidUser(st) THEN st ELSE getUsageCountStore(st)

\* the editor's JSX calls getRemainingExports whenever it renders with an
\* image loaded and isPaid false
Rerender(st, img, paid) ==
  IF img # None /\ ~paid THEN getRemainingExportsStore(st) ELSE st

(***************************************************************************)
(* The editor's effects: what runs after a handler has set state.          *)
(***************************************************************************)
ES == [image |-> image, sel |-> selectedTemplate, bg |-> activeBackground,
       wm |-> customWatermark, tr |-> imageTransform, paid |-> isPaid,
       sbc |-> screenBgColor]

IdOf(sel) == IF sel = None THEN "" ELSE sel[1].id

IsDevice(sel) == sel # None /\ sel[1].device # ""

\* the call the render effect makes for editor state es, if any; capture
\* tells whether the call has the .then that stores the screen dimensions
RenderTasks(es, capture, cause) ==
  IF es.image # None /\ es.sel # None
    THEN << Task(es.image[1], RenderTemplate(es.sel[1], es.bg, es.sbc),
                 es.wm, es.tr, es.paid, capture, cause) >>
    ELSE << >>

\* the reset effect acts: the template id changed and a device is selected
ResetDue(old, new) == IdOf(old.sel) # IdOf(new.sel) /\ IsDevice(new.sel)

\* the calls of applyTemplate after a commit that took the editor from old to
\* new: the render effect, and the render that the reset effect's
\* setImageTransform brings
EffectTasks(old, new, cause) ==
  RenderTasks(new, TRUE, cause)
  \o (IF ResetDue(old, new)
        THEN RenderTasks([new EXCEPT !.tr = Identity], TRUE, "reset")
        ELSE << >>)

\* a reset effect that leaves realScreenDimsRef alone
EffectDimsKept(rs, old, new) == rs
\* the reset effect clears realScreenDimsRef before any .then runs
EffectDims(rs, old, new) ==
  IF ResetDue(old, new) THEN [rs EXCEPT !.dims = None] ELSE rs

\* a reset effect that depends on the template object, not on its id
EffectTransformOnAnyChange(old, new) ==
  IF old.sel # new.sel /\ IsDevice(new.sel) THEN Identity ELSE new.tr
EffectTransform(old, new) == IF ResetDue(old, new) THEN Identity ELSE new.tr

\* the auto-fill effect: its timer is replaced when image or template id
\* changed; the closure it holds is the render after the reset
EffectTimer(old, new, imageChanged, timer) ==
  IF imageChanged \/ IdOf(old.sel) # IdOf(new.sel)
    THEN IF new.image # None /\ IsDevice(new.sel)
           THEN Some([new EXCEPT !.tr = Identity]) ELSE None
    ELSE timer

\* a handler has produced editor state new: commit it and run the effects
Commit(new, imageChanged, cause) ==
  /\ image' = new.image
  /\ selectedTemplate' = new.sel
  /\ activeBackground' = new.bg
  /\ customWatermark' = new.wm
  /\ isPaid' = new.paid
  /\ screenBgColor' = new.sbc
  /\ imageTransform' = EffectTransform(ES, new)
  /\ fillTimer' = EffectTimer(ES, new, imageChanged, fillTimer)
  /\ storage' = Rerender(storage, new.image, new.paid)
  /\ SetRender(StartAll(EffectDims(RS, ES, new), EffectTasks(ES, new, cause)))

(***************************************************************************)
(* Editor handlers.                                                        *)
(***************************************************************************)
otherUI == << isTransforming, transformStartRef, drag, phoneOrientation >>

notEditor == << showPaywall, clock, verifying, exported, assets, refRender >>

defaultBg == Gradient("gradient-purple-pink")

\* handleFileUpload from the file picker or a drop: both exist only while no
\* image is loaded
UploadImage(img) ==
  /\ image = None
  /\ Commit([ES EXCEPT !.image = Some(img),
                       !.sel = IF selectedTemplate = None THEN Some(defaultBg) ELSE @,
                       !.bg  = IF selectedTemplate = None THEN Some(defaultBg) ELSE @],
            TRUE, "upload")
  /\ UNCHANGED << otherUI, notEditor >>

\* the paste listener: it is registered once, on mount, so the handleFileUpload
\* it calls sees the selectedTemplate of the first render, which is null
PasteImage(img) ==
  /\ Commit([ES EXCEPT !.image = Some(img),
                       !.sel = Some(defaultBg),
                       !.bg  = Some(defaultBg)],
            TRUE, "paste")
  /\ UNCHANGED << otherUI, notEditor >>

\* handleTemplateChange
handleTemplateChange(template, cause) ==
  LET flat == template.type = "gradient" \/ template.type = "solid"
      bg1  == IF flat THEN Some(template) ELSE activeBackground
  IN  Commit(IF flat /\ selectedTemplate # None /\ selectedTemplate[1].type = "device"
               THEN [ES EXCEPT !.bg = bg1]
               ELSE [ES EXCEPT
                       !.bg  = IF template.type = "device" /\ activeBackground = None
                                 THEN Some(defaultBg) ELSE bg1,
                       !.sel = Some(template)],
             FALSE, cause)

\* the first gradient of the templates array
fallbackGradient == templates[CHOOSE i \in 1..Len(templates) :
                       /\ templates[i].type = "gradient"
                       /\ \A j \in 1..(i - 1) : templates[j].type # "gradient"]

\* TemplateSelector.handleTemplateSelect: a click on a template card
handleTemplateSelect(i) ==
  /\ image # None
  /\ i \in 1..Len(templates)
  /\ handleTemplateChange(
       IF IdOf(selectedTemplate) = templates[i].id /\ templates[i].type = "device"
         THEN fallbackGradient
       ELSE IF templates[i].device = "phone"
         THEN [templates[i] EXCEPT !.orientation = phoneOrientation]
       ELSE templates[i],
       "template")
  /\ UNCHANGED << otherUI, notEditor >>

\* TemplateSelector.handlePhoneOrientationToggle
handlePhoneOrientationToggle ==
  /\ image # None
  /\ LET newOrientation == IF phoneOrientation = "portrait" THEN "landscape"
                                                            ELSE "portrait"
     IN  /\ phoneOrientation' = newOrientation
         /\ IF selectedTemplate # None /\ selectedTemplate[1].device = "phone"
              THEN handleTemplateChange(
                     [selectedTemplate[1] EXCEPT !.orientation = newOrientation],
                     "orientation")
              ELSE /\ storage' = Rerender(storage, image, isPaid)
                   /\ UNCHANGED << image, selectedTemplate, activeBackground,
                                   customWatermark, imageTransform, screenBgColor,
                                   fillTimer, isPaid, renderVars >>
  /\ UNCHANGED << isTransforming, transformStartRef, drag, notEditor >>

\* getScreenDimensions, for the template sel
getScreenDimensions(sel, dims) ==
  IF ~IsDevice(sel) THEN [width |-> R(0), height |-> R(0)]
  ELSE IF dims # None THEN dims[1]
  ELSE IF sel[1].device = "phone"
    THEN [width  |-> IF sel[1].orientation = "portrait" THEN R(380) ELSE R(780),
          height |-> IF sel[1].orientation = "portrait" THEN R(780) ELSE R(380)]
  ELSE IF sel[1].device = "ipad" THEN [width |-> R(1024), height |-> R(768)]
  ELSE IF sel[1].device = "macbook" THEN [width |-> R(1280), height |-> R(800)]
  ELSE IF sel[1].device = "browser" THEN [width |-> R(1200), height |-> R(675)]
  ELSE [width |-> R(0), height |-> R(0)]

\* applyFillTransform, run with the state es its handler closed over:
\* setImageTransform (and the render effect it brings), then the render of its
\* zero-delay timeout, which has no .then
applyFillTransform(es, transform, cause) ==
  /\ imageTransform' = EffectTransform(ES, [ES EXCEPT !.tr = transform])
  /\ storage' = Rerender(storage, image, isPaid)
  /\ SetRender(StartAll(RS, EffectTasks(ES, [ES EXCEPT !.tr = transform], cause)
                            \o RenderTasks([es EXCEPT !.tr = transform], FALSE, cause)))
  /\ UNCHANGED << image, selectedTemplate, activeBackground, customWatermark,
                  isPaid, screenBgColor >>

\* the Fill buttons are shown while an image is loaded and a device selected
FillShown == image # None /\ IsDevice(selectedTemplate)

\* handleFillScreen ("Fill All")
handleFillScreen ==
  /\ FillShown
  /\ applyFillTransform(ES, Identity, "fillAll")
  /\ UNCHANGED << fillTimer, otherUI, notEditor >>

\* handleFillHorizontal ("Fill H")
handleFillHorizontal ==
  /\ FillShown
  /\ LET d == getScreenDimensions(selectedTemplate, realScreenDimsRef)
         coverScale == RMax(RDiv(d.width, R(image[1].width)),
                            RDiv(d.height, R(image[1].height)))
         widthScale == RDiv(d.width, R(image[1].width))
         relativeScale == RDiv(widthScale, coverScale)
     IN  applyFillTransform(ES, [scale |-> relativeScale, x |-> 0, y |-> 0], "fillH")
  /\ UNCHANGED << fillTimer, otherUI, notEditor >>

\* a plausible slip: the ratio upside down
handleFillVerticalInverted ==
  /\ FillShown
  /\ LET d == getScreenDimensions(selectedTemplate, realScreenDimsRef)
         coverScale == RMax(RDiv(d.width, R(image[1].width)),
                            RDiv(d.height, R(image[1].height)))
         heightScale == RDiv(d.height, R(image[1].height))
         relativeScale == RDiv(coverScale, heightScale)
     IN  applyFillTransform(ES, [scale |-> relativeScale, x |-> 0, y |-> 0], "fillV")
  /\ UNCHANGED << fillTimer, otherUI, notEditor >>

\* handleFillVertical ("Fill V")
handleFillVertical ==
  /\ FillShown
  /\ LET d == getScreenDimensions(selectedTemplate, realScreenDimsRef)
         coverScale == RMax(RDiv(d.width, R(image[1].width)),
                            RDiv(d.height, R(image[1].height)))
         heightScale == RDiv(d.height, R(image[1].height))
         relativeScale == RDiv(heightScale, coverScale)
     IN  applyFillTransform(ES, [scale |-> relativeScale, x |-> 0, y |-> 0], "fillV")
  /\ UNCHANGED << fillTimer, otherUI, notEditor >>

\* the auto-fill timeout fires: handleFillScreen of the render that set it
AutoFill ==
  /\ fillTimer # None
  /\ LET es == fillTimer[1]
     IN  IF IsDevice(es.sel) /\ es.image # None
           THEN applyFillTransform(es, Identity, "autoFill")
           ELSE UNCHANGED << image, selectedTemplate, activeBackground, customWatermark,
                             isPaid, screenBgColor, imageTransform, renderVars, storage >>
  /\ fillTimer' = None
  /\ UNCHANGED << otherUI, notEditor >>

\* zoom slider positions tried (min 0.5, max 3, step 0.1)
SliderValues == { Rat(5, 10), R(1), R(3) }

\* pointer positions tried
Pointers == { [x |-> 0, y |-> 0], [x |-> 30, y |-> 20] }

MaxOffset == 30

\* the zoom slider's onChange
SliderChange(v) ==
  /\ FillShown
  /\ v \in SliderValues
  /\ Commit([ES EXCEPT !.tr.scale = v], FALSE, "slider")
  /\ UNCHANGED << otherUI, notEditor >>

\* a handleMouseDown that takes the pointer position alone for the anchor
handleMouseDownAtPointer(e) ==
  /\ image # None
  /\ IF ~IsDevice(selectedTemplate)
       THEN UNCHANGED << isTransforming, transformStartRef, drag, storage >>
       ELSE /\ isTransforming' = TRUE
            /\ transformStartRef' = Some([x |-> e.x, y |-> e.y])
            /\ drag' = Some([p0 |-> e, t0 |-> imageTransform, p |-> None])
            /\ storage' = Rerender(storage, image, isPaid)
  /\ UNCHANGED << image, selectedTemplate, activeBackground, customWatermark,
                  imageTransform, screenBgColor, phoneOrientation, fillTimer, isPaid,
                  renderVars, notEditor >>
\* handleMouseDown
handleMouseDown(e) ==
  /\ image # None
  /\ IF ~IsDevice(selectedTemplate)
       THEN UNCHANGED << isTransforming, transformStartRef, drag, storage >>
       ELSE /\ isTransforming' = TRUE
            /\ transformStartRef' = Some([x |-> e.x - imageTransform.x,
                                          y |-> e.y - imageTransform.y])
            /\ drag' = Some([p0 |-> e, t0 |-> imageTransform, p |-> None])
            /\ storage' = Rerender(storage, image, isPaid)
  /\ UNCHANGED << image, selectedTemplate, activeBackground, customWatermark,
                  imageTransform, screenBgColor, phoneOrientation, fillTimer, isPaid,
                  renderVars, notEditor >>

\* handleMouseMove
handleMouseMove(e) ==
  /\ image # None
  /\ isTransforming /\ transformStartRef # None
  /\ Abs(e.x - transformStartRef[1].x) <= MaxOffset
  /\ Abs(e.y - transformStartRef[1].y) <= MaxOffset
  /\ Commit([ES EXCEPT !.tr.x = e.x - transformStartRef[1].x,
                       !.tr.y = e.y - transformStartRef[1].y], FALSE, "drag")
  /\ drag' = IF drag = None THEN drag ELSE Some([drag[1] EXCEPT !.p = Some(e)])
  /\ UNCHANGED << isTransforming, transformStartRef, phoneOrientation, notEditor >>

\* handleMouseUp (mouse up, or the pointer leaves the canvas)
handleMouseUp ==
  /\ image # None
  /\ isTransforming' = FALSE
  /\ transformStartRef' = None
  /\ drag' = None
  /\ storage' = Rerender(storage, image, isPaid)
  /\ UNCHANGED << image, selectedTemplate, activeBackground, customWatermark,
                  imageTransform, screenBgColor, phoneOrientation, fillTimer, isPaid,
                  renderVars, notEditor >>

\* watermark texts tried
WatermarkTexts == { << >>, << " " >>, << "w" >>, << " ", "w", " " >>, << " ", " " >> }

\* the watermark input's onChange
SetCustomWatermark(text) ==
  /\ image # None
  /\ text \in WatermarkTexts
  /\ text # customWatermark
  /\ Commit([ES EXCEPT !.wm = text], FALSE, "watermark")
  /\ UNCHANGED << otherUI, notEditor >>

\* the two screen-colour buttons
SetScreenBgColor(c) ==
  /\ FillShown
  /\ c \in { "#000000", "#ffffff" }
  /\ c # screenBgColor
  /\ Commit([ES EXCEPT !.sbc = c], FALSE, "screenBg")
  /\ UNCHANGED << otherUI, notEditor >>

\* "New Screenshot": the canvas element and the template picker unmount; the
\* calls still in flight hold the old canvas
NewScreenshot ==
  /\ image # None
  /\ image' = None
  /\ selectedTemplate' = None
  /\ imageTransform' = EffectTransform(ES, [ES EXCEPT !.image = None, !.sel = None])
  /\ fillTimer' = EffectTimer(ES, [ES EXCEPT !.image = None, !.sel = None], TRUE, fillTimer)
  /\ SetRender([RS EXCEPT
                  !.canvas = EmptyCanvas,
                  !.last = None,
                  !.pending = [i \in 1..Len(pending) |->
                                 [pending[i] EXCEPT !.mounted = FALSE]]])
  /\ phoneOrientation' = "portrait"
  /\ UNCHANGED << activeBackground, customWatermark, screenBgColor, isPaid,
                  isTransforming, transformStartRef, drag, storage, notEditor >>

(***************************************************************************)
(* Export and the free-tier gate.                                          *)
(***************************************************************************)
MaxMonth == 2

MaxNow == 3

MaxVerifying == 1

downloadFrame == << image, selectedTemplate, activeBackground, customWatermark,
                    imageTransform, screenBgColor, fillTimer, otherUI, assets,
                    refRender, clock >>

\* the count in effect for the current month: what getUsageCount would return
Effective(st) == IF st.resetDate = Some(getCurrentMonth) THEN st.uses ELSE 0

\* the record of one download: the handler's isPaid, the stored count before
\* and after, the counts in effect before and after, the paywall flag after
Download(kind, paid, before, st, shown) ==
  [kind |-> kind, paid |-> paid, before |-> before.uses, after |-> st.uses,
   current |-> Effective(before), effective |-> Effective(st), shown |-> shown]

\* handleDownload from the free-limit check on, run with the isPaid its
\* closure holds
Gate(paid, st) ==
  IF ~paid /\ hasHitFreeLimit(st)
    THEN /\ showPaywall' = TRUE
         /\ storage' = hasHitFreeLimitStore(st)
         /\ exported' = [exported EXCEPT
                           !.last = Some(Download("paywall", paid, storage, storage', TRUE))]
    ELSE LET st1 == IF ~paid THEN hasHitFreeLimitStore(st) ELSE st
             st2 == IF image # None /\ ~paid THEN incrementUsage(st1) ELSE st1
         IN  /\ showPaywall' = showPaywall
             /\ storage' = st2
             /\ exported' =
                  IF image # None
                    THEN [exported EXCEPT
                            !.free = IF paid THEN @ ELSE @ + 1,
                            !.last = Some(Download("export", paid, storage, st2, showPaywall))]
                    ELSE [exported EXCEPT
                            !.last = Some(Download("nocanvas", paid, storage, st2, showPaywall))]

\* a click on "Download PNG": handleDownload up to its first await, or to its end
handleDownload ==
  /\ image # None /\ selectedTemplate # None
  /\ IF isPaid /\ getSubscriptionId(storage) /\ ~isVerificationCached(storage)
       THEN /\ verifying < MaxVerifying
            /\ verifying' = verifying + 1
            /\ UNCHANGED << showPaywall, storage, exported >>
       ELSE /\ Gate(isPaid, storage)
            /\ UNCHANGED verifying
  /\ UNCHANGED << isPaid, renderVars, downloadFrame >>

\* /api/verify answers that the subscription is active
VerifyActive ==
  /\ verifying > 0
  /\ verifying' = verifying - 1
  /\ Gate(TRUE, updateVerificationCache(storage))
  /\ UNCHANGED << isPaid, renderVars, downloadFrame >>

\* /api/verify answers that the subscription is not active
VerifyInactive ==
  /\ verifying > 0
  /\ verifying' = verifying - 1
  /\ showPaywall' = TRUE
  /\ isPaid' = FALSE
  /\ storage' = Rerender(revokePaid(storage), image, FALSE)
  /\ exported' = [exported EXCEPT
                    !.last = Some(Download("revoked", TRUE, storage, storage', TRUE))]
  /\ SetRender(StartAll(RS, EffectTasks(ES, [ES EXCEPT !.paid = FALSE], "revoke")))
  /\ UNCHANGED downloadFrame

\* the request to /api/verify fails: the export goes on
VerifyError ==
  /\ verifying > 0
  /\ verifying' = verifying - 1
  /\ Gate(TRUE, storage)
  /\ UNCHANGED << isPaid, renderVars, downloadFrame >>

\* the paywall's "Maybe later"
ClosePaywall ==
  /\ showPaywall
  /\ showPaywall' = FALSE
  /\ storage' = Rerender(storage, image, isPaid)
  /\ UNCHANGED << isPaid, verifying, exported, renderVars, downloadFrame >>

\* the calendar month changes
NewMonth ==
  /\ clock.month < MaxMonth
  /\ clock' = [clock EXCEPT !.month = @ + 1]
  /\ exported' = [exported EXCEPT !.free = 0]
  /\ UNCHANGED << editorVars, renderVars, isPaid, showPaywall, storage, verifying,
                  assets, refRender >>

\* half an hour passes
Tick ==
  /\ clock.now < MaxNow
  /\ clock' = [clock EXCEPT !.now = @ + 1]
  /\ UNCHANGED << editorVars, renderVars, isPaid, showPaywall, storage, verifying,
                  exported, assets, refRender >>

(***************************************************************************)
(* Initial states and specifications.                                      *)
(***************************************************************************)
Storage(paid, uses, resetDate, customerId, subscriptionId, lastVerified) ==
  [paid |-> paid, uses |-> uses, resetDate |-> resetDate, customerId |-> customerId,
   subscriptionId |-> subscriptionId, lastVerified |-> lastVerified]

\* what an earlier session can have left in localStorage
Storages ==
  { Storage(FALSE, 0, None, FALSE, FALSE, None) }
  \cup { Storage(p, u, Some(m), p /\ c, p /\ c, IF p /\ c THEN v ELSE None) :
           p \in BOOLEAN, u \in 0..FREE_LIMIT, m \in 0..1, c \in BOOLEAN,
           v \in { None, Some(0) } }

\* the editor right after it has mounted (isPaid is set from isPaidUser);
\* img, wm and tr are None, << >> and Identity then
InitWith(st, served, img, wm, tr) ==
  /\ image = img
  /\ selectedTemplate = None
  /\ activeBackground = None
  /\ customWatermark = wm
  /\ imageTransform = tr
  /\ isTransforming = FALSE
  /\ transformStartRef = None
  /\ drag = None
  /\ isPaid = isPaidUser(st)
  /\ screenBgColor = "#000000"
  /\ showPaywall = FALSE
  /\ realScreenDimsRef = None
  /\ phoneOrientation = "portrait"
  /\ fillTimer = None
  /\ canvas = EmptyCanvas
  /\ pending = << >>
  /\ deviceFrameCache = EmptyCache
  /\ loads = [a \in { PhoneAsset, IpadAsset } |-> 0]
  /\ assets = served
  /\ lastRender = None
  /\ refRender = None
  /\ storage = st
  /\ clock = [month |-> 1, now |-> 0]
  /\ verifying = 0
  /\ exported = [free |-> IF st.resetDate = Some(1) THEN st.uses ELSE 0, last |-> None]

Served(phone, ipad) == [a \in { PhoneAsset, IpadAsset } |->
                          IF a = PhoneAsset THEN phone ELSE ipad]

CentredPhone == Frame(1500, 3000, 100, 100, 1300, 2800)

Fresh == Storage(FALSE, 0, None, FALSE, FALSE, None)

(***************************************************************************)
(* Spec: the editor with an image, a template picker and the fill presets. *)
(***************************************************************************)
Init ==
  \E ipad \in IpadFrames : InitWith(Fresh, Served(CentredPhone, ipad), None, << >>, Identity)

Next ==
  \/ \E img \in { [width |-> 1000, height |-> 2000], [width |-> 1600, height |-> 1000] } :
       UploadImage(img)
  \/ \E i \in { 1, 3, 4 } : handleTemplateSelect(i)
  \/ handleFillScreen
  \/ handleFillHorizontal
  \/ handleFillVertical
  \/ AutoFill
  \/ \E i \in 1..MaxPending : FetchOk(i)
  \/ \E i \in 1..MaxPending : FetchFail(i)

Spec == Init /\ [][Next]_vars

(***************************************************************************)
(* SpecRender: applyTemplate as a function of its arguments.  The image,   *)
(* the watermark text, the transform and the paid flag are drawn in the    *)
(* initial state; each step is one call of applyTemplate on the editor's   *)
(* canvas with one template, the fetches of loadDeviceFrame succeeding or  *)
(* failing.                                                                *)
(***************************************************************************)
Transforms == { Identity, [scale |-> R(3), x |-> 30, y |-> 20] }

\* the templates the editor can hand to applyTemplate
RenderTemplates ==
  { RenderTemplate(templates[i], Some(defaultBg), "#000000") : i \in 1..Len(templates) }
  \cup { RenderTemplate(Device("device-phone", "phone", "landscape"), Some(defaultBg),
                        "#000000") }

\* one whole call of applyTemplate(canvas, image, t, customWatermark,
\* imageTransform, isPaid); ok tells whether the fetches of loadDeviceFrame
\* succeed should it need them; keep tells whether the render before this one
\* is remembered for comparison
Invoke(t, ok, keep) ==
  /\ image # None
  /\ LET task      == Task(image[1], t, customWatermark, imageTransform, isPaid, FALSE, "call")
         framePath == FramePath(t)
         miss      == framePath # "" /\ framePath \notin DOMAIN deviceFrameCache
         fetched   == IF miss /\ ok THEN Some(assets[framePath]) ELSE None
         rs        == IF miss /\ ok
                        THEN [RS EXCEPT !.cache = CacheSet(@, framePath, assets[framePath]),
                                        !.loads[framePath] = @ + 1]
                        ELSE RS
     IN  /\ miss \/ ok
         /\ SetRender(Complete(rs, task,
                               IF framePath = "" THEN None
                               ELSE loadDeviceFrame(deviceFrameCache, framePath, fetched)))
  /\ refRender' = IF keep /\ lastRender # None
                    THEN Some([render |-> lastRender[1], canvas |-> canvas])
                    ELSE refRender
  /\ UNCHANGED << editorVars, quotaVars, assets >>

Paid == Storage(TRUE, 0, None, FALSE, FALSE, None)

InitRender ==
  \E st \in { Fresh, Paid }, phone \in PhoneFrames, ipad \in IpadFrames,
     img \in ImageSizes, wm \in WatermarkTexts, tr \in Transforms :
    InitWith(st, Served(phone, ipad), Some(img), wm, tr)

NextRender == \E t \in RenderTemplates, ok \in BOOLEAN : Invoke(t, ok, FALSE)

SpecRender == InitRender /\ [][NextRender]_vars

(***************************************************************************)
(* SpecRepeat: calls of applyTemplate one after another, each with an      *)
(* earlier call remembered.                                                *)
(***************************************************************************)
InitRepeat ==
  \E st \in { Fresh, Paid }, wm \in { << >>, << "w" >> } :
    InitWith(st, Served(CentredPhone, Frame(3000, 2200, 100, 100, 2800, 2000)),
             Some([width |-> 1600, height |-> 1000]), wm, Identity)

NextRepeat == \E t \in RenderTemplates, ok \in BOOLEAN, keep \in BOOLEAN : Invoke(t, ok, keep)

SpecRepeat == InitRepeat /\ [][NextRepeat]_vars

(***************************************************************************)
(* SpecQuota: downloads, the free-tier counter and the subscription check. *)
(***************************************************************************)
InitQuota ==
  \E st \in Storages, ipad \in IpadFrames :
    InitWith(st, Served(CentredPhone, ipad), None, << >>, Identity)

NextQuota ==
  \/ \E img \in { [width |-> 1600, height |-> 1000] } : UploadImage(img)
  \/ NewScreenshot
  \/ handleDownload
  \/ VerifyActive
  \/ VerifyInactive
  \/ VerifyError
  \/ ClosePaywall
  \/ NewMonth
  \/ Tick

SpecQuota == InitQuota /\ [][NextQuota]_vars

(***************************************************************************)
(* SpecOrient: the phone template drawn in both orientations, on frames of *)
(* several sizes, each call with an earlier call remembered.               *)
(***************************************************************************)
FrameSizes ==
  { Frame(1500, 3000, 100, 100, 1300, 2800),
    Frame(1000, 2000, 50, 100, 900, 1800),
    Frame(1200, 1200, 100, 100, 1000, 1000),
    Frame(1290, 2796, 45, 48, 1200, 2700) }

PhoneTemplates ==
  { RenderTemplate(Device("device-phone", "phone", o), Some(defaultBg), "#000000") :
      o \in { "portrait", "landscape" } }

InitOrient ==
  \E st \in { Fresh, Paid }, phone \in FrameSizes, img \in ImageSizes :
    InitWith(st, Served(phone, Frame(3000, 2200, 100, 100, 2800, 2000)),
             Some(img), << >>, Identity)

NextOrient == \E t \in PhoneTemplates, ok \in BOOLEAN, keep \in BOOLEAN : Invoke(t, ok, keep)

SpecOrient == InitOrient /\ [][NextOrient]_vars

(***************************************************************************)
(* SpecEdit: the template picker with the gradient, the browser window and *)
(* the phone, the orientation toggle, the zoom slider and the auto-fill    *)
(* timer; the fetches of the phone frame succeed.                          *)
(***************************************************************************)
InitEdit ==
  InitWith(Fresh, Served(CentredPhone, Frame(3000, 2200, 100, 100, 2800, 2000)),
           None, << >>, Identity)

NextEdit ==
  \/ UploadImage([width |-> 1600, height |-> 1000])
  \/ \E i \in { 2, 3, 4 } : handleTemplateSelect(i)
  \/ handlePhoneOrientationToggle
  \/ SliderChange(R(3))
  \/ AutoFill
  \/ \E i \in 1..MaxPending : FetchOk(i)

SpecEdit == InitEdit /\ [][NextEdit]_vars

(***************************************************************************)
(* SpecFrame: the phone with everything around it that re-renders: the     *)
(* orientation toggle, a background picked while the phone is selected,    *)
(* the watermark input, the screen colour, a subscription found inactive   *)
(* on download, the zoom slider and the auto-fill timer; the fetches of the *)
(* phone frame succeed in the order they were made.                        *)
(***************************************************************************)
\* a paid user with a subscription that was never verified and three exports
\* counted this month
Subscribed == Storage(TRUE, FREE_LIMIT, Some(1), TRUE, TRUE, None)

InitFrame ==
  InitWith(Subscribed, Served(CentredPhone, Frame(3000, 2200, 100, 100, 2800, 2000)),
           None, << >>, Identity)

NextFrame ==
  \/ UploadImage([width |-> 1600, height |-> 1000])
  \/ \E i \in { 1, 4 } : handleTemplateSelect(i)
  \/ handlePhoneOrientationToggle
  \/ SliderChange(R(3))
  \/ AutoFill
  \/ SetCustomWatermark(<< "w" >>)
  \/ SetScreenBgColor("#ffffff")
  \/ handleDownload
  \/ VerifyInactive
  \/ FetchOk(1)

SpecFrame == InitFrame /\ [][NextFrame]_vars

(***************************************************************************)
(* SpecDrag: the pointer on the canvas, with the gradient, the browser     *)
(* window and the laptop to pick from, an image pasted at any time, the    *)
(* zoom slider and the auto-fill timer.                                    *)
(***************************************************************************)
InitDrag ==
  InitWith(Fresh, Served(CentredPhone, Frame(3000, 2200, 100, 100, 2800, 2000)),
           None, << >>, Identity)

NextDrag ==
  \/ UploadImage([width |-> 1600, height |-> 1000])
  \/ PasteImage([width |-> 1600, height |-> 1000])
  \/ \E i \in { 3, 6 } : handleTemplateSelect(i)
  \/ SliderChange(R(3))
  \/ AutoFill
  \/ \E e \in Pointers : handleMouseDown(e)
  \/ \E e \in Pointers : handleMouseMove(e)
  \/ handleMouseUp

SpecDrag == InitDrag /\ [][NextDrag]_vars

(***************************************************************************)
(* SpecThrow: the phone and the tablet picked while the server's sidecar   *)
(* descriptor of the phone is whole, or has no "screen", or no             *)
(* "frameSize"; the fetches succeed or fail.                               *)
(***************************************************************************)
InitThrow ==
  \E phone \in { CentredPhone, Lacking(CentredPhone, "screen"),
                  Lacking(CentredPhone, "frameSize") } :
    InitWith(Fresh, Served(phone, Frame(3000, 2200, 100, 100, 2800, 2000)),
             None, << >>, Identity)

NextThrow ==
  \/ UploadImage([width |-> 1600, height |-> 1000])
  \/ \E i \in { 4, 5 } : handleTemplateSelect(i)
  \/ handlePhoneOrientationToggle
  \/ \E i \in 1..MaxPending : FetchOk(i)
  \/ \E i \in 1..MaxPending : FetchFail(i)

SpecThrow == InitThrow /\ [][NextThrow]_vars

(***************************************************************************)
(* SpecPaint: the phone picked at zoom 1 or 3 with an empty cache, the     *)
(* waiting calls followed statement by statement after their fetches end;  *)
(* the handlers run when no call is between two awaits.                    *)
(***************************************************************************)
InitPaint ==
  InitWith(Fresh, Served(CentredPhone, Frame(3000, 2200, 100, 100, 2800, 2000)),
           None, << >>, Identity)

NextPaint ==
  \/ ~Busy /\ UploadImage([width |-> 1600, height |-> 1000])
  \/ ~Busy /\ handleTemplateSelect(4)
  \/ ~Busy /\ SliderChange(R(3))
  \/ \E i \in 1..MaxPending, ok \in BOOLEAN : Resume(i, ok)
  \/ \E i \in 1..MaxPending : PaintStep(i)

SpecPaint == InitPaint /\ [][NextPaint]_vars

(***************************************************************************)
(* SpecZoom: everything that sets the transform: the zoom slider, the      *)
(* three Fill buttons, the auto-fill timer, a drag, and a change of        *)
(* template (browser window or MacBook), with a tall and a wide image.     *)
(***************************************************************************)
InitZoom ==
  InitWith(Fresh, Served(CentredPhone, Frame(3000, 2200, 100, 100, 2800, 2000)),
           None, << >>, Identity)

NextZoom ==
  \/ \E img \in { [width |-> 1000, height |-> 2000], [width |-> 1600, height |-> 1000] } :
       UploadImage(img)
  \/ \E i \in { 3, 6 } : handleTemplateSelect(i)
  \/ \E v \in SliderValues : SliderChange(v)
  \/ handleFillScreen
  \/ handleFillHorizontal
  \/ handleFillVertical
  \/ AutoFill
  \/ handleMouseDown([x |-> 0, y |-> 0])
  \/ handleMouseMove([x |-> 30, y |-> 20])
  \/ handleMouseUp

SpecZoom == InitZoom /\ [][NextZoom]_vars

(***************************************************************************)
(* Properties.                                                             *)
(***************************************************************************)
IsStamp(l) == l.op \in { "branding", "custom" }

\* the watermark stamps on the canvas
Stamps == SelectSeq(canvas.layers, IsStamp)

Visible(text) == \E i \in 1..Len(text) : ~IsSpace(text[i])

\* C1: after every render the stamps on the canvas are exactly the branding
\* text iff the render's isPaid is false, and the custom text iff it has a
\* character that is not white space; each at most once
WatermarkStamps ==
  lastRender # None =>
    LET r     == lastRender[1].in
        kinds == { Stamps[i].op : i \in 1..Len(Stamps) }
    IN  /\ ("branding" \in kinds) <=> ~r.isPaid
        /\ ("custom" \in kinds) <=> Visible(r.customWatermark)
        /\ Len(Stamps) = Cardinality(kinds)
        /\ \A i \in 1..Len(Stamps) :
             Stamps[i].text = IF Stamps[i].op = "branding" THEN BrandingText
                                                           ELSE r.customWatermark

\* C1 witness: a paid render with white space for custom text leaves no
\* stamp, and an unpaid render with custom text has drawn two
WatermarkStampsWitness ==
  /\ lastRender # None
  /\ \/ /\ lastRender[1].in.isPaid
        /\ lastRender[1].in.customWatermark = << " ", " " >>
        /\ Stamps = << >>
     \/ /\ ~lastRender[1].in.isPaid
        /\ lastRender[1].in.customWatermark = << " ", "w", " " >>
        /\ Len(Stamps) = 2

\* C2 as stated: an export changes the stored counter by +1 when the handler
\* ran unpaid and leaves it alone when paid; a blocked download leaves it alone
CounterStepStored ==
  exported.last # None =>
    LET d == exported.last[1]
    IN  /\ d.kind = "export" /\ ~d.paid => d.after = d.before + 1
        /\ d.kind = "export" /\ d.paid => d.after = d.before
        /\ d.kind \in { "paywall", "revoked" } => d.after = d.before

\* C2 amended: an unpaid export raises the count in effect for the current
\* month by one, a paid export leaves the stored counter alone, and a blocked
\* download leaves the count in effect for the current month alone
CounterStep ==
  exported.last # None =>
    LET d == exported.last[1]
    IN  /\ d.kind = "export" /\ ~d.paid =>
             d.after = d.current + 1 /\ d.effective = d.after
        /\ d.kind = "export" /\ d.paid => d.after = d.before
        /\ d.kind \in { "paywall", "revoked" } => d.effective = d.current

\* C2 witness: an unpaid export in a month later than the stored one
CounterStepWitness ==
  /\ exported.last # None
  /\ exported.last[1].kind = "export"
  /\ ~exported.last[1].paid
  /\ exported.last[1].before = 2
  /\ exported.last[1].after = 1

\* C3: unpaid, the stored count and the exports of the month stay at or below
\* FREE_LIMIT; a download at the limit opens the paywall and exports nothing;
\* the stored count drops to 0 only when the stored month is not the current one
FreeLimit ==
  /\ [](/\ storage.uses <= FREE_LIMIT
        /\ exported.free <= FREE_LIMIT
        /\ exported.last # None /\ ~exported.last[1].paid
             /\ exported.last[1].current >= FREE_LIMIT
           => /\ exported.last[1].kind = "paywall"
              /\ exported.last[1].shown
              /\ exported.last[1].after = exported.last[1].before)
  /\ [][storage'.uses = 0 /\ storage.uses # 0
          => storage.resetDate # Some(clock.month)]_vars

\* C3 witness: the paywall has come up on the fourth download of the month
FreeLimitWitness ==
  /\ exported.last # None
  /\ exported.last[1].kind = "paywall"
  /\ showPaywall
  /\ exported.free = FREE_LIMIT
  /\ storage.uses = FREE_LIMIT

\* the layer of the given kind on the canvas (each render paints at most one)
LayerOf(op) == CHOOSE l \in { canvas.layers[i] : i \in 1..Len(canvas.layers) } : l.op = op

HasLayer(op) == \E i \in 1..Len(canvas.layers) : canvas.layers[i].op = op

\* the canvas shows a render of a device template made by the given handler
DeviceRenderBy(cause) ==
  /\ lastRender # None
  /\ lastRender[1].in.template.type = "device"
  /\ lastRender[1].in.cause = cause
  /\ HasLayer("image")

\* C4: the render that "Fill All" brings draws the image into a rectangle at
\* least as wide and at least as high as the screen rectangle
FillAllCovers ==
  DeviceRenderBy("fillAll") =>
    LET draw   == LayerOf("image").rect[1]
        screen == LayerOf("image").clip[1]
    IN  RLe(screen.w, draw.w) /\ RLe(screen.h, draw.h)

\* C5: the render that "Fill H" brings draws the image exactly as wide as the
\* screen rectangle
FillHorizontalWidth ==
  DeviceRenderBy("fillH") =>
    LayerOf("image").rect[1].w = LayerOf("image").clip[1].w

\* C6: the render that "Fill V" brings draws the image exactly as high as the
\* screen rectangle
FillVerticalHeight ==
  DeviceRenderBy("fillV") =>
    LayerOf("image").rect[1].h = LayerOf("image").clip[1].h

Inside(inner, outer) ==
  /\ RLe(outer.x, inner.x)
  /\ RLe(outer.y, inner.y)
  /\ RLe(RAdd(inner.x, inner.w), RAdd(outer.x, outer.w))
  /\ RLe(RAdd(inner.y, inner.h), RAdd(outer.y, outer.h))

\* C7: with the transform {scale: 1, x: 0, y: 0} every device render draws the
\* image inside the screen rectangle, as wide or as high as it
FitInside ==
  /\ lastRender # None
  /\ lastRender[1].in.template.type = "device"
  /\ lastRender[1].in.imageTransform = Identity
  => LET draw   == LayerOf("image").rect[1]
         screen == lastRender[1].out.screen
     IN  /\ Inside(draw, screen)
         /\ draw.w = screen.w \/ draw.h = screen.h

\* C7 witness: on the phone asset a wide image is fitted to the screen's width
\* and leaves room above and below
FitInsideWitness ==
  /\ lastRender # None
  /\ lastRender[1].in.template.device = "phone"
  /\ lastRender[1].in.imageTransform = Identity
  /\ lastRender[1].out.path = "asset"
  /\ LayerOf("image").rect[1].w = LayerOf("image").clip[1].w
  /\ RLt(LayerOf("image").rect[1].h, LayerOf("image").clip[1].h)

\* the arguments of applyTemplate that two calls are compared on
Arguments(task) ==
  << task.template, task.image, task.imageTransform, task.customWatermark, task.isPaid >>

\* what a call produced: the canvas size, the screen rectangle, the draw
\* rectangle and the paint steps
Produced(out) == << out.canvas, out.screen, out.draw, out.ops >>

\* C8 as stated: two calls of applyTemplate with the same arguments produce
\* the same output and leave the same canvas, whatever came before them
SameArgumentsSameOutput ==
  /\ refRender # None
  /\ lastRender # None
  /\ Arguments(refRender[1].render.in) = Arguments(lastRender[1].in)
  => /\ Produced(refRender[1].render.out) = Produced(lastRender[1].out)
     /\ refRender[1].canvas = canvas

\* C8 amended: two calls with the same arguments for which loadDeviceFrame
\* gave the same outcome (a frame for both, or none for both) produce the
\* same output and leave the same canvas, whatever came before them
SameLoadSameOutput ==
  /\ refRender # None
  /\ lastRender # None
  /\ Arguments(refRender[1].render.in) = Arguments(lastRender[1].in)
  /\ refRender[1].render.loaded = lastRender[1].loaded
  => /\ Produced(refRender[1].render.out) = Produced(lastRender[1].out)
     /\ refRender[1].canvas = canvas

\* C8 witness: two phone renders from the loaded frame, the second served
\* from the cache with the tablet frame cached as well
SameLoadSameOutputWitness ==
  /\ refRender # None
  /\ lastRender # None
  /\ Arguments(refRender[1].render.in) = Arguments(lastRender[1].in)
  /\ lastRender[1].in.template.device = "phone"
  /\ refRender[1].render.loaded /\ lastRender[1].loaded
  /\ DOMAIN deviceFrameCache = { PhoneAsset, IpadAsset }
  /\ refRender[1].canvas = canvas

\* the canvas shows the landscape phone drawn from the frame asset
LandscapeAsset ==
  /\ lastRender # None
  /\ lastRender[1].in.template.device = "phone"
  /\ lastRender[1].in.template.orientation = "landscape"
  /\ lastRender[1].out.path = "asset"

\* ctx.rotate(-Math.PI / 2) after ctx.translate(centerX, centerY), the inverse
\* of RotateCW: the canvas rectangle r seen in the rotated frame's own axes
RotateBack(centerX, centerY, r) ==
  Rect(RSub(r.y, centerY), RSub(RSub(centerX, r.x), r.w), r.h, r.w)

\* C9: turning the landscape screen rectangle back by 90 degrees about the
\* canvas centre gives the portrait screen rectangle (sx, sy, sw, sh) of the
\* descriptor, at the display scale, in the frame's own axes
RotationRoundTrip ==
  LandscapeAsset =>
    LET f    == assets[PhoneAsset]
        ds   == PhoneDisplayScaleLandscape
        back == RotateBack(RHalf(canvas.width), RHalf(canvas.height),
                           LayerOf("image").clip[1])
    IN  back = Rect(RSub(RMul(R(f.sx), ds), RHalf(RMul(R(f.fw), ds))),
                    RSub(RMul(R(f.sy), ds), RHalf(RMul(R(f.fh), ds))),
                    RMul(R(f.sw), ds), RMul(R(f.sh), ds))

\* C10: on the landscape phone drawn from the frame asset, the rectangle the
\* image is clipped to is the place where the screen opening of the rotated
\* frame bitmap lands
ClipMeetsCutout ==
  LandscapeAsset => LayerOf("image").clip[1] = LayerOf("frame").rect[1]


\* the remembered call drew the portrait phone and the latest call the
\* landscape phone, both from the frame asset
PortraitThenLandscape ==
  /\ refRender # None
  /\ refRender[1].render.in.template.device = "phone"
  /\ refRender[1].render.in.template.orientation = "portrait"
  /\ refRender[1].render.out.path = "asset"
  /\ LandscapeAsset

\* C11 as stated: the landscape canvas is the portrait canvas with width and
\* height swapped
LandscapeCanvasSwapsPortrait ==
  PortraitThenLandscape =>
    /\ canvas.width = refRender[1].canvas.height
    /\ canvas.height = refRender[1].canvas.width

\* C11 amended: the landscape canvas is frame height * 0.28 + 200 wide and
\* frame width * 0.28 + 200 high, each without its fraction; the portrait
\* canvas is frame width * 0.22 + 200 by frame height * 0.22 + 200, each
\* without its fraction
LandscapeCanvasSwapsFrame ==
  PortraitThenLandscape =>
    LET f == assets[PhoneAsset]
        p == refRender[1].canvas
        side(length, scale) == ToUnsignedLong(RAdd(RMul(R(length), scale), R(200)))
    IN  /\ canvas.width = side(f.fh, Rat(28, 100))
        /\ canvas.height = side(f.fw, Rat(28, 100))
        /\ p.width = side(f.fw, Rat(22, 100))
        /\ p.height = side(f.fh, Rat(22, 100))

\* C11 witness: the 1000 x 2000 frame drawn upright on a 420 x 640 canvas and
\* then on its side on a 760 x 480 canvas
LandscapeCanvasSwapsFrameWitness ==
  /\ PortraitThenLandscape
  /\ refRender[1].canvas.width = R(420) /\ refRender[1].canvas.height = R(640)
  /\ canvas.width = R(760) /\ canvas.height = R(480)


\* the canvas shows the upright phone or the tablet drawn from its frame asset
UprightAsset ==
  /\ lastRender # None
  /\ lastRender[1].out.path = "asset"
  /\ \/ lastRender[1].in.template.device = "ipad"
     \/ /\ lastRender[1].in.template.device = "phone"
        /\ lastRender[1].in.template.orientation = "portrait"

\* C12 as stated: the upright phone (display scale 0.22) and the tablet
\* (0.35) drawn from the asset have a canvas of frameSize * displayScale + 200
\* on each axis, clip the image to the descriptor's screen rectangle times
\* the display scale moved by the 100 px padding, and store that rectangle's
\* size as the real screen dimensions
ScaledFrameExact ==
  UprightAsset =>
    LET t  == lastRender[1].in.template
        f  == assets[FramePath(t)]
        ds == IF t.device = "ipad" THEN Rat(35, 100) ELSE Rat(22, 100)
        sw == RMul(R(f.sw), ds)
        sh == RMul(R(f.sh), ds)
    IN  /\ canvas.width = RAdd(RMul(R(f.fw), ds), R(200))
        /\ canvas.height = RAdd(RMul(R(f.fh), ds), R(200))
        /\ LayerOf("image").clip =
             Some(Rect(RAdd(R(100), RMul(R(f.sx), ds)), RAdd(R(100), RMul(R(f.sy), ds)),
                       sw, sh))
        /\ lastRender[1].out.realScreenDimensions = Some([width |-> sw, height |-> sh])

\* C12 amended: the canvas sides are frameSize * displayScale + 200 without
\* their fractions; the screen rectangle and the stored real screen
\* dimensions keep theirs
ScaledFrame ==
  UprightAsset =>
    LET t  == lastRender[1].in.template
        f  == assets[FramePath(t)]
        ds == IF t.device = "ipad" THEN Rat(35, 100) ELSE Rat(22, 100)
        sw == RMul(R(f.sw), ds)
        sh == RMul(R(f.sh), ds)
    IN  /\ canvas.width = ToUnsignedLong(RAdd(RMul(R(f.fw), ds), R(200)))
        /\ canvas.height = ToUnsignedLong(RAdd(RMul(R(f.fh), ds), R(200)))
        /\ LayerOf("image").clip =
             Some(Rect(RAdd(R(100), RMul(R(f.sx), ds)), RAdd(R(100), RMul(R(f.sy), ds)),
                       sw, sh))
        /\ lastRender[1].out.realScreenDimensions = Some([width |-> sw, height |-> sh])

\* C12 witness: the phone frame of 1290 x 2796 with its screen of 1200 x 2700
\* at (45, 48), drawn upright on a 483 x 815 canvas with the screen 264 x 594
\* at (109.9, 110.56)
ScaledFrameWitness ==
  /\ UprightAsset
  /\ lastRender[1].in.template.device = "phone"
  /\ canvas.width = R(483) /\ canvas.height = R(815)
  /\ LayerOf("image").clip = Some(Rect(Rat(1099, 10), Rat(11056, 100), R(264), R(594)))
  /\ lastRender[1].out.realScreenDimensions = Some([width |-> R(264), height |-> R(594)])


\* the canvas shows a render of a gradient or solid template
FlatRender ==
  /\ lastRender # None
  /\ lastRender[1].in.template.type # "device"

\* the scale s = min(1600 / w, 1) of the flat templates
FlatScale(w) == RMin(RDiv(R(1600), R(w)), R(1))

\* C13 as stated: for a gradient or solid template and an image of w x h the
\* canvas is (w * s + 200) x (h * s + 200) with s = min(1600 / w, 1)
FlatCanvasExact ==
  FlatRender =>
    LET img == lastRender[1].in.image
    IN  /\ canvas.width = RAdd(RMul(R(img.width), FlatScale(img.width)), R(200))
        /\ canvas.height = RAdd(RMul(R(img.height), FlatScale(img.width)), R(200))

\* C13 amended: the canvas is (w * s + 200) x (h * s + 200) with
\* s = min(1600 / w, 1), each side without its fraction; the width is
\* w + 200 up to w = 1600 and 1800 above
FlatCanvas ==
  FlatRender =>
    LET img == lastRender[1].in.image
    IN  /\ canvas.width =
             ToUnsignedLong(RAdd(RMul(R(img.width), FlatScale(img.width)), R(200)))
        /\ canvas.height =
             ToUnsignedLong(RAdd(RMul(R(img.height), FlatScale(img.width)), R(200)))
        /\ canvas.width = IF img.width <= 1600 THEN R(img.width + 200) ELSE R(1800)
        /\ img.width <= 1600 => canvas.height = R(img.height + 200)

\* C13 witness: the 1700 x 1000 image, scaled by 16/17 to 1600 x 941.18, on a
\* canvas of 1800 x 1141
FlatCanvasWitness ==
  /\ FlatRender
  /\ lastRender[1].in.image = [width |-> 1700, height |-> 1000]
  /\ canvas.width = R(1800)
  /\ canvas.height = R(1141)

\* C14: every render of the browser template has a canvas of 1400 x 915,
\* clips the image to the 1200 x 675 rectangle that starts 40 px under the
\* window top at (100, 100), and stores 1200 x 675 as real screen dimensions
BrowserGeometry ==
  /\ lastRender # None
  /\ lastRender[1].in.template.device = "browser"
  => /\ canvas.width = R(1400)
     /\ canvas.height = R(915)
     /\ LayerOf("image").clip = Some(Rect(R(100), R(100 + 40), R(1200), R(675)))
     /\ lastRender[1].out.realScreenDimensions =
          Some([width |-> R(1200), height |-> R(675)])

\* C14 witness: the browser template drawn with the 2000 x 500 image, zoomed
\* and moved
BrowserGeometryWitness ==
  /\ lastRender # None
  /\ lastRender[1].in.template.device = "browser"
  /\ lastRender[1].in.image = [width |-> 2000, height |-> 500]
  /\ lastRender[1].in.imageTransform # Identity
  /\ canvas.height = R(915)
  /\ LayerOf("image").clip[1].y = R(140)


\* C15: a step that changes the selected template to a device template with
\* another id leaves the transform at {scale: 1, x: 0, y: 0} and none of the
\* screen dimensions stored before it: realScreenDimsRef is empty, or holds
\* what a render of the new template stored after the reset
TemplateReset ==
  [][IdOf(selectedTemplate') # IdOf(selectedTemplate) /\ IsDevice(selectedTemplate')
       => /\ imageTransform' = Identity
          /\ \/ realScreenDimsRef' = None
             \/ /\ lastRender' # None
                /\ lastRender'[1].in.template.id = IdOf(selectedTemplate')
                /\ lastRender'[1].in.capture
                /\ realScreenDimsRef' = lastRender'[1].out.realScreenDimensions]_vars

\* C15 witness: the phone was picked while the canvas showed the browser
\* window zoomed to 3: the transform is reset, the stored dimensions are gone
\* and the phone's two renders wait for the frame
TemplateResetWitness ==
  /\ IdOf(selectedTemplate) = "device-phone"
  /\ imageTransform = Identity
  /\ realScreenDimsRef = None
  /\ lastRender # None
  /\ lastRender[1].in.template.id = "device-browser"
  /\ lastRender[1].in.imageTransform.scale = R(3)
  /\ lastRender[1].out.realScreenDimensions # None
  /\ Len(pending) = 2


\* a click on a gradient or solid card while a device is selected
BackgroundChoice ==
  /\ IsDevice(selectedTemplate)
  /\ \E i \in 1..Len(templates) :
       templates[i].type # "device" /\ handleTemplateSelect(i)

\* C16: a step that changes the transform is a step of the zoom slider, a
\* pointer-move, a Fill preset (clicked or fired by the auto-fill timer) or a
\* change of the template id to a device, which leaves {scale: 1, x: 0, y: 0};
\* it is no step of the orientation toggle, of a background picked while a
\* device is selected, of the watermark input or the screen colour buttons, no
\* change of the paid flag and no render that completes
TransformFrame ==
  /\ [][imageTransform' # imageTransform =>
         \/ \E v \in SliderValues : SliderChange(v)
         \/ \E e \in Pointers : handleMouseMove(e)
         \/ handleFillScreen \/ handleFillHorizontal \/ handleFillVertical \/ AutoFill
         \/ /\ IdOf(selectedTemplate') # IdOf(selectedTemplate)
            /\ IsDevice(selectedTemplate')
            /\ imageTransform' = Identity]_vars
  /\ [][imageTransform' # imageTransform =>
         ~ \/ handlePhoneOrientationToggle
           \/ BackgroundChoice
           \/ \E text \in WatermarkTexts : SetCustomWatermark(text)
           \/ \E c \in { "#000000", "#ffffff" } : SetScreenBgColor(c)
           \/ isPaid' # isPaid
           \/ \E i \in 1..Len(pending) : FetchOk(i) \/ FetchFail(i)]_vars

\* C16 witness: the phone zoomed to 3 and then turned to landscape, given a
\* watermark and a white screen, and rendered unpaid after the subscription
\* was found inactive, still zoomed to 3
TransformFrameWitness ==
  /\ IdOf(selectedTemplate) = "device-phone"
  /\ selectedTemplate[1].orientation = "landscape"
  /\ customWatermark = << "w" >>
  /\ screenBgColor = "#ffffff"
  /\ ~isPaid
  /\ pending = << >>
  /\ imageTransform = [scale |-> R(3), x |-> 0, y |-> 0]
  /\ lastRender # None
  /\ lastRender[1].in.imageTransform = imageTransform
  /\ lastRender[1].in.template.orientation = "landscape"
  /\ ~lastRender[1].in.isPaid


PointerMove == \E e \in Pointers : handleMouseMove(e)

PointerEvent ==
  \/ \E e \in Pointers : handleMouseDown(e)
  \/ PointerMove
  \/ handleMouseUp

\* C17: with the pointer gone down at p0 while the transform was t0, every
\* pointer-move to p leaves the offset at t0 + (p - p0) on both axes and the
\* scale as it was before the move
DragFollowsPointer ==
  [][PointerMove =>
       /\ drag' # None
       /\ drag'[1].p # None
       /\ imageTransform'.x = drag'[1].t0.x + (drag'[1].p[1].x - drag'[1].p0.x)
       /\ imageTransform'.y = drag'[1].t0.y + (drag'[1].p[1].y - drag'[1].p0.y)
       /\ imageTransform'.scale = imageTransform.scale]_vars

\* C17 witness: on a device zoomed to 3 the pointer went down at (30, 20)
\* with the offset at (30, 20) and has moved to (0, 0): the offset is (0, 0)
DragFollowsPointerWitness ==
  /\ IsDevice(selectedTemplate)
  /\ drag # None
  /\ drag[1].p0 = [x |-> 30, y |-> 20]
  /\ drag[1].t0 = [scale |-> R(3), x |-> 30, y |-> 20]
  /\ drag[1].p = Some([x |-> 0, y |-> 0])
  /\ imageTransform = [scale |-> R(3), x |-> 0, y |-> 0]
  /\ lastRender # None
  /\ lastRender[1].in.cause = "drag"
  /\ lastRender[1].in.imageTransform = imageTransform

\* a pointer-move changes the transform only between a pointer-down on a
\* device template and the next pointer-up or pointer-leave
MoveNeedsDrag ==
  [][PointerMove /\ imageTransform' # imageTransform => drag # None]_vars

\* C18: a pointer-move changes the transform only while a drag is active,
\* and while a gradient or solid template is selected no pointer event
\* changes the transform
FlatIgnoresPointer ==
  /\ MoveNeedsDrag
  /\ [][~IsDevice(selectedTemplate) /\ PointerEvent
          => imageTransform' = imageTransform]_vars


\* the canvas shows a phone or tablet render for which loadDeviceFrame
\* returned null
FrameUnavailable ==
  /\ lastRender # None
  /\ lastRender[1].in.template.device \in { "phone", "ipad" }
  /\ ~lastRender[1].loaded

\* the hardcoded screen of the canvas-drawn frames
HardcodedScreen(template) ==
  IF template.device = "ipad" THEN [width |-> R(1024), height |-> R(768)]
  ELSE IF template.orientation = "portrait" THEN [width |-> R(380), height |-> R(780)]
  ELSE [width |-> R(780), height |-> R(380)]

\* C19: when the frame cannot be loaded the phone or tablet render still
\* completes on the canvas-drawn frame: the canvas is sized around the
\* hardcoded screen (380 x 780, 780 x 380, 1024 x 768), which is stored as the
\* real screen dimensions, and backdrop, image and the watermark stamps due
\* are painted
FallbackRender ==
  FrameUnavailable =>
    LET r      == lastRender[1]
        screen == HardcodedScreen(r.in.template)
        margin == IF r.in.template.device = "ipad" THEN R(200) ELSE R(300)
        kinds  == { Stamps[i].op : i \in 1..Len(Stamps) }
    IN  /\ r.out.path = "fallback"
        /\ r.out.realScreenDimensions = Some(screen)
        /\ canvas.width = RAdd(screen.width, margin)
        /\ canvas.height = RAdd(screen.height, margin)
        /\ HasLayer("backdrop")
        /\ HasLayer("image")
        /\ ("branding" \in kinds) <=> ~r.in.isPaid
        /\ ("custom" \in kinds) <=> Visible(r.in.customWatermark)

\* C19 witness: the landscape phone drawn without its frame asset on a canvas
\* of 1080 x 680, unpaid and with custom text
FallbackRenderWitness ==
  /\ FrameUnavailable
  /\ lastRender[1].in.template.orientation = "landscape"
  /\ canvas.width = R(1080)
  /\ canvas.height = R(680)
  /\ lastRender[1].out.realScreenDimensions = Some([width |-> R(780), height |-> R(380)])
  /\ Len(Stamps) = 2
  /\ deviceFrameCache = EmptyCache


\* C20: each device asset path is fetched and stored at most once, also when
\* several renders ask for it before the first fetch has resolved, and an
\* entry of the cache is never stored again
LoadedOnce == \A a \in DOMAIN loads : loads[a] <= 1


\* the positions on the canvas of the paint steps of the given kinds
StepsAt(ops) == { i \in 1..Len(canvas.layers) : canvas.layers[i].op \in ops }

\* C21: in every render the backdrop is painted first, then the image with
\* the screen region for clipping path, then every piece of the device's
\* ornamentation, then the watermark stamps
PaintOrder ==
  lastRender # None =>
    /\ StepsAt({ "backdrop" }) = { 1 }
    /\ Cardinality(StepsAt({ "image" })) = 1
    /\ \A i \in StepsAt({ "image" }) :
         /\ canvas.layers[i].clip = Some(lastRender[1].out.screen)
         /\ \A j \in StepsAt({ "frame", "reflection" }) : i < j
    /\ \A i \in StepsAt({ "branding", "custom" }) :
         \A j \in 1..Len(canvas.layers) : j > i => IsStamp(canvas.layers[j])


\* a device template is selected only with an active background attached
DeviceHasBackground == IsDevice(selectedTemplate) => activeBackground # None

\* C22: a selected device template has an active background, and the backdrop
\* of a device render is the active background handed to the render when one
\* is attached, the built-in gradient only when none is
DeviceBackground ==
  /\ DeviceHasBackground
  /\ lastRender # None /\ lastRender[1].in.template.type = "device"
     => LayerOf("backdrop").fill =
          IF lastRender[1].in.template.background # ""
            THEN << "gradient", lastRender[1].in.template.background >>
            ELSE << "gradient", "device-default" >>


\* the canvas shows what the given render painted
Shows(render) ==
  /\ canvas.width = render.out.canvas.width
  /\ canvas.height = render.out.canvas.height
  /\ canvas.layers = render.out.layers

\* C23 as stated: once no render is waiting, the canvas and the captured
\* screen dimensions are those of the render that completed last
LastRenderWinsAll ==
  pending = << >> /\ lastRender # None =>
    /\ Shows(lastRender[1])
    /\ lastRender[1].out.realScreenDimensions # None
       => realScreenDimsRef = lastRender[1].out.realScreenDimensions

\* C23 amended: a waiting render leaves the queue only by painting, whatever
\* was requested or has painted since; the canvas always shows the render
\* that completed last; the captured screen dimensions are those of the
\* render that completed last whenever that render captures them
LastRenderWins ==
  /\ [][/\ Len(pending') >= Len(pending) => SubSeq(pending', 1, Len(pending)) = pending
        /\ Len(pending') < Len(pending) =>
             \E i \in 1..Len(pending) :
               /\ pending' = RemoveAt(pending, i)
               /\ lastRender' # None
               /\ lastRender'[1].in = pending[i]]_vars
  /\ [](lastRender # None => Shows(lastRender[1]))
  /\ [][/\ lastRender' # lastRender
        /\ lastRender' # None
        /\ lastRender'[1].in.capture
        /\ lastRender'[1].out.realScreenDimensions # None
        => realScreenDimsRef' = lastRender'[1].out.realScreenDimensions]_vars

\* C23 witness: the browser window is selected and has been rendered, then
\* the fetch of an earlier phone render resolved: nothing is waiting, and the
\* canvas and the captured dimensions are the phone's
LastRenderWinsWitness ==
  /\ pending = << >>
  /\ selectedTemplate # None /\ selectedTemplate[1].device = "browser"
  /\ lastRender # None
  /\ lastRender[1].in.template.device = "phone"
  /\ Shows(lastRender[1])
  /\ realScreenDimsRef = lastRender[1].out.realScreenDimensions


\* the screen dimensions a render of the selected template can produce: from
\* the frame asset, or from the canvas-drawn frame
RenderedDims ==
  LET t == RenderTemplate(selectedTemplate[1], activeBackground, screenBgColor)
      frames == { None } \cup (IF FramePath(t) = "" THEN {}
                                ELSE { Some(assets[FramePath(t)]) })
  IN  { applyTemplate(image[1], t, customWatermark, imageTransform, isPaid,
                      df).realScreenDimensions[1] : df \in frames }

\* C24: the screen dimensions "Fill H" and "Fill V" compute with are those
\* that a render of the device and orientation selected at that time
\* produces (the hardcoded defaults are those of the canvas-drawn frames);
\* never those of another device or of the other phone orientation
FillDimensions ==
  [][handleFillHorizontal \/ handleFillVertical =>
       getScreenDimensions(selectedTemplate, realScreenDimsRef) \in RenderedDims]_vars


\* C25: whatever happens to a render, an exception included, the canvas
\* shows the whole of the render that completed last: it is never resized and
\* left blank or with only some of the paint steps
FrameSurvives ==
  IF lastRender = None THEN canvas = EmptyCanvas ELSE Shows(lastRender[1])


\* C26: a click on the device template that is selected deselects it: after
\* the click the selected template is a flat background, not a device
ClickDeselects ==
  [][\A i \in 1..Len(templates) :
       /\ handleTemplateSelect(i)
       /\ templates[i].type = "device"
       /\ IdOf(selectedTemplate) = templates[i].id
       => /\ selectedTemplate' # None
          /\ selectedTemplate'[1].type \in { "gradient", "solid" }]_vars


\* C27: an image load (file picker, drop or paste) selects the default
\* gradient only when no template is selected; with a template selected it
\* leaves the selected template and the active background as they are
LoadKeepsTemplate ==
  [][\A img \in { [width |-> 1600, height |-> 1000] } :
       UploadImage(img) \/ PasteImage(img) =>
         IF selectedTemplate = None
           THEN selectedTemplate' = Some(defaultBg)
           ELSE /\ selectedTemplate' = selectedTemplate
                /\ activeBackground' = activeBackground]_vars


\* the download that ended last went through to the export step as a paid
\* user's: no limit test, no count written, the paywall left as it was
ExportedAsPaid(st) ==
  /\ storage' = st
  /\ showPaywall' = showPaywall
  /\ exported'.free = exported.free
  /\ exported'.last =
       Some(Download(IF image # None THEN "export" ELSE "nocanvas", TRUE, storage, st,
                     showPaywall))

\* C28: a download by a paid user with a stored subscription id and no
\* verification cached within the hour waits for the verification and exports
\* nothing before the answer; on "inactive" the paid flag, customer id,
\* subscription id and verification stamp are cleared, the paywall opens and
\* nothing is exported or counted; on a failed request the export goes on as a
\* paid user's; on "active" the time is cached and the export goes on
VerifiedBeforeExport ==
  [][/\ handleDownload /\ isPaid /\ getSubscriptionId(storage)
        /\ ~isVerificationCached(storage)
        => /\ verifying' = verifying + 1
           /\ exported' = exported /\ storage' = storage /\ showPaywall' = showPaywall
     /\ VerifyInactive
        => /\ ~storage'.paid /\ ~storage'.customerId /\ ~storage'.subscriptionId
           /\ storage'.lastVerified = None
           /\ ~isPaid' /\ showPaywall'
           /\ exported'.free = exported.free
           /\ exported'.last # None /\ exported'.last[1].kind = "revoked"
           /\ Effective(storage') = Effective(storage)
     /\ VerifyError => ExportedAsPaid(storage)
     /\ VerifyActive
        => ExportedAsPaid([storage EXCEPT !.lastVerified = Some(clock.now)])]_vars

\* C28 witness: a verification answered "inactive": the subscription is
\* revoked and the paywall is open
VerifiedBeforeExportWitness ==
  /\ exported.last # None /\ exported.last[1].kind = "revoked"
  /\ showPaywall /\ ~isPaid
  /\ ~storage.paid /\ ~storage.subscriptionId /\ storage.lastVerified = None


\* the canvas holds paint steps of one render only: the whole of the render
\* that completed last, or the first steps of the call that is painting
OneRender ==
  \/ lastRender = None /\ canvas = EmptyCanvas
  \/ lastRender # None /\ Shows(lastRender[1])
  \/ \E i \in 1..Len(pending) :
       /\ pending[i].at # None
       /\ canvas.width = Out(pending[i]).canvas.width
       /\ canvas.height = Out(pending[i]).canvas.height
       /\ canvas.layers = SubSeq(Out(pending[i]).layers, 1, pending[i].at[1].step - 1)

\* C29: from its resize of the canvas to its watermark a render is not
\* interleaved with another: while a call is past its resize, the next thing
\* that happens is that call's own next paint step, and the canvas never
\* holds paint steps of two renders
AtomicPaint ==
  /\ []OneRender
  /\ [][\A i \in 1..Len(pending) :
          pending[i].at # None =>
            /\ canvas'.width = canvas.width /\ canvas'.height = canvas.height
            /\ canvas'.layers =
                 Append(canvas.layers, Out(pending[i]).layers[pending[i].at[1].step])]_vars

\* C29 witness: a call has painted its backdrop and its image while another
\* call, with another transform, waits for its fetches
AtomicPaintWitness ==
  \E i, j \in 1..Len(pending) :
    /\ pending[i].at # None /\ pending[i].at[1].step >= 3
    /\ pending[j].at = None
    /\ pending[j].imageTransform # pending[i].imageTransform


====
